--------------------------- MODULE PanelLink_proofs ---------------------------
(***************************************************************************)
(* What holds of the calls between the web server and its master for any   *)
(* number of connections, threads and calls: no call takes the answer of   *)
(* another, and the link implements PanelCalls.                            *)
(*                                                                         *)
(* The invariant says where a command may be: of the connection that the   *)
(* master uses at most one command or answer is on its way, and while its  *)
(* socket is open that is the call of the thread that holds the mutex.     *)
(***************************************************************************)
EXTENDS PanelLink, SequenceTheorems, TLAPS

\* The places where a thread holds the mutex, and where its call has not returned.
Calling == {"send", "recv", "body", "close", "remove"}
Inside == Calling \cup {"release"}

\* Threads use connections that were accepted; checker c waits for connection c.
Nodes ==
  /\ accepted <= client
  /\ \A i \in DOMAIN devices : devices[i] <= accepted
  /\ \A t \in Threads :
       thread[t].at # "idle" => thread[t].node # 0 /\ thread[t].node <= accepted
  /\ thread[Listener].at # "idle" => thread[Listener].node = accepted
  /\ \A c \in Checkers :
       thread[c].at # "idle" =>
         c <= accepted /\ (thread[Listener].at # "idle" => c < accepted)

\* Of the connections but the master's last one nothing comes any more, but what
\* is left of an answer the master ended in the middle.
Wires ==
  /\ \A c \in Connections : c < client => c \notin open \/ c \in cut
  /\ \A c \in Connections :
       c > client => c \notin open /\ c \notin cut /\ commands[c] = <<>>
  /\ \A c \in Connections : answers[c] # <<>> => c \in open /\ (c \in cut => c \in ended)

\* The holder of the mutex makes the last call, and no other call waits.
Holder ==
  /\ \A t \in Threads : mutex = t <=> thread[t].at \in Inside
  /\ mutex # Nobody =>
       /\ thread[mutex].call = Len(told) /\ Len(told) # 0
       /\ thread[mutex].at \in Calling => told[Len(told)] = "none"
  /\ \A r \in DOMAIN told :
       told[r] = "none" =>
         r = Len(told) /\ mutex # Nobody /\ thread[mutex].at \in Calling

\* What call r is when it may still be served.
Fresh(r) == r \in DOMAIN told /\ \A q \in DOMAIN served : served[q] < r

ServedOnce ==
  /\ \A q \in DOMAIN served : served[q] \in DOMAIN told
  /\ mutex # Nobody /\ thread[mutex].at = "send" =>
       /\ \A q \in DOMAIN served : served[q] # Len(told)
       /\ client # 0 /\ commands[client] # <<>> =>
            commands[client][1].call # Len(told)
       /\ partial # Len(told)

\* At most one command or answer is on its way on the master's connection.
OnItsWay ==
  client # 0 =>
    /\ commands[client] # <<>> =>
         Len(commands[client]) = 1 /\ Fresh(commands[client][1].call)
    /\ answers[client] # <<>> =>
         /\ Len(answers[client]) = 1 /\ commands[client] = <<>>
         /\ answers[client][1] = Len(told)
         /\ \E q \in DOMAIN served : served[q] = answers[client][1]

InPart ==
  partial # NoCommand =>
    /\ client # 0 /\ commands[client] = <<>> /\ answers[client] = <<>>
    /\ Fresh(partial)

\* It is the call of the thread that holds the mutex, if the socket is open.
busyLink ==
  client # 0 /\ (commands[client] # <<>> \/ answers[client] # <<>>
                 \/ partial # NoCommand)
OfTheHolder ==
  client \in open /\ busyLink =>
    /\ mutex # Nobody /\ thread[mutex].at \in {"recv", "body", "close"}
    /\ thread[mutex].node = client
    /\ commands[client] # <<>> => commands[client][1].call = Len(told)
    /\ partial # NoCommand => partial = Len(told)

IInv ==
  /\ TypeOK /\ Nodes /\ Wires /\ Holder /\ ServedOnce
  /\ OnItsWay /\ InPart /\ OfTheHolder /\ AnswersMatch

ThreadType ==
  [Threads -> [at : Places, node : 0 .. MaxConnections, call : Nat,
               left : 0 .. Calls + 2]]
Command == [call : Nat, long : BOOLEAN]
Results == {"none", "ok", "wrong", "failed"}
-----------------------------------------------------------------------------
LEMMA Numbers ==
  /\ MaxConnections \in Nat \ {0} /\ Calls \in Nat
  /\ Connections = 1 .. MaxConnections /\ Checkers = Connections
  /\ Listener = 0 /\ NoCommand = 0 /\ Nobody = -1
  /\ Listener \in Threads /\ Checkers \subseteq Threads /\ Web \subseteq Threads
  /\ Threads \subseteq Nat /\ Web \cap Checkers = {} /\ Listener \notin Web
BY PanelConstants DEF PanelConstants, Connections, Listener, Checkers, Web, Threads,
   Nobody, NoCommand

LEMMA Words ==
  /\ Calling \subseteq Inside /\ Inside \subseteq Places
  /\ "idle" \notin Inside /\ "lock" \notin Inside /\ "list" \notin Inside
  /\ "idle" \in Places /\ "lock" \in Places /\ "list" \in Places
  /\ "send" \in Calling /\ "recv" \in Calling /\ "body" \in Calling
  /\ "close" \in Calling /\ "remove" \in Calling
  /\ "release" \in Inside \ Calling
BY DEF Calling, Inside, Places

\* Of a list without its entry i.
LEMMA WithoutOne ==
  ASSUME NEW S, NEW s \in Seq(S), NEW i \in 1 .. Len(s)
  PROVE  LET r == SubSeq(s, 1, i - 1) \o SubSeq(s, i + 1, Len(s)) IN
         r \in Seq(S) /\ \A j \in DOMAIN r : \E k \in DOMAIN s : r[j] = s[k]
<1> DEFINE u == SubSeq(s, 1, i - 1)
           v == SubSeq(s, i + 1, Len(s))
<1>1. /\ u \in Seq(S) /\ Len(u) = i - 1
      /\ \A j \in 1 .. i - 1 : u[j] = s[j]
  <2>1. \A j \in 1 .. i - 1 : s[j] \in S
    OBVIOUS
  <2> QED BY <2>1, SubSeqProperties
<1>2. /\ v \in Seq(S) /\ Len(v) = Len(s) - i
      /\ \A j \in 1 .. Len(s) - i : v[j] = s[i + j]
  <2>1. \A j \in i + 1 .. Len(s) : s[j] \in S
    OBVIOUS
  <2> QED BY <2>1, SubSeqProperties
<1> HIDE DEF u, v
<1>3. u \o v \in Seq(S) /\ Len(u \o v) = Len(s) - 1
  BY <1>1, <1>2
<1>4. \A j \in 1 .. Len(s) - 1 : (u \o v)[j] = IF j < i THEN s[j] ELSE s[j + 1]
  BY <1>1, <1>2
<1>5. \A j \in 1 .. Len(s) - 1 : \E k \in 1 .. Len(s) : (u \o v)[j] = s[k]
  <2> TAKE j \in 1 .. Len(s) - 1
  <2>1. CASE j < i
    <3> WITNESS j \in 1 .. Len(s)
    <3> QED BY <2>1, <1>4
  <2>2. CASE ~(j < i)
    <3> WITNESS j + 1 \in 1 .. Len(s)
    <3> QED BY <2>2, <1>4
  <2> QED BY <2>1, <2>2
<1>6. DOMAIN (u \o v) = 1 .. Len(s) - 1 /\ DOMAIN s = 1 .. Len(s)
  BY <1>3
<1>7. \A j \in DOMAIN (u \o v) : \E k \in DOMAIN s : (u \o v)[j] = s[k]
  BY <1>5, <1>6
<1> QED BY <1>3, <1>7 DEF u, v
\* Of a list of one entry.
LEMMA OfOne ==
  ASSUME NEW S, NEW s \in Seq(S), Len(s) = 1
  PROVE  s[1] \in S /\ Head(s) = s[1] /\ Tail(s) = <<>>
<1>1. s # <<>> /\ s[1] \in S
  OBVIOUS
<1>2. Head(s) = s[1] /\ Len(Tail(s)) = 0 /\ Tail(s) \in Seq(S)
  BY <1>1
<1> QED BY <1>1, <1>2, EmptySeq

LEMMA Types ==
  ASSUME TypeOK
  PROVE  /\ client \in Nat /\ accepted \in Nat /\ partial \in Nat
         /\ client <= MaxConnections /\ accepted <= MaxConnections
         /\ client # 0 <=> client \in Connections
         /\ thread \in ThreadType /\ mutex \in Threads \cup {Nobody}
         /\ served \in Seq(Nat) /\ told \in Seq(Results)
         /\ commands \in [Connections -> Seq(Command)]
         /\ answers \in [Connections -> Seq(Nat)]
         /\ devices \in Seq(Connections)
         /\ open \subseteq Connections /\ cut \subseteq Connections
         /\ named \subseteq Connections /\ ended \subseteq cut
<1>1. client \in 0 .. MaxConnections /\ accepted \in 0 .. MaxConnections
  BY DEF TypeOK
<1>2. /\ thread \in ThreadType /\ mutex \in Threads \cup {Nobody}
      /\ served \in Seq(Nat) /\ told \in Seq(Results)
      /\ commands \in [Connections -> Seq(Command)]
      /\ answers \in [Connections -> Seq(Nat)]
      /\ devices \in Seq(Connections) /\ partial \in Nat
      /\ open \subseteq Connections /\ cut \subseteq Connections
      /\ named \subseteq Connections /\ ended \subseteq cut
  BY DEF TypeOK, ThreadType, Results, Command
<1> QED BY <1>1, <1>2, Numbers

LEMMA TypeIsSmall ==
  ASSUME TypeOK
  PROVE  client \in Connections \cup {0} /\ accepted \in Connections \cup {0}
<1>1. client \in 0 .. MaxConnections /\ accepted \in 0 .. MaxConnections
  BY DEF TypeOK
<1> QED BY <1>1, Numbers

LEMMA TypesAgain ==
  ASSUME client' \in Connections \cup {0}, accepted' \in Connections \cup {0},
         partial' \in Nat,
         thread' \in ThreadType, mutex' \in Threads \cup {Nobody},
         served' \in Seq(Nat), told' \in Seq(Results),
         commands' \in [Connections -> Seq(Command)],
         answers' \in [Connections -> Seq(Nat)],
         devices' \in Seq(Connections),
         open' \subseteq Connections, cut' \subseteq Connections,
         named' \subseteq Connections, ended' \subseteq cut'
  PROVE  TypeOK'
<1>1. client' \in 0 .. MaxConnections /\ accepted' \in 0 .. MaxConnections
  BY Numbers
<1> QED BY <1>1 DEF TypeOK, ThreadType, Results, Command
-----------------------------------------------------------------------------
(* The master's steps *)
LEMMA ConnectKeeps ==
  ASSUME IInv, Connect
  PROVE  IInv'
<1>1. /\ client + 1 \in Connections
      /\ commands[client + 1] = <<>> /\ answers[client + 1] = <<>>
  <2>1. client + 1 \in Connections /\ client + 1 > client
    BY Types, Numbers DEF IInv, Connect
  <2> QED BY <2>1 DEF IInv, Wires
<1>2. TypeOK'
  <2>1. /\ client' \in Connections \cup {0} /\ open' \subseteq Connections
        /\ UNCHANGED <<accepted, partial, thread, mutex, served, told, commands,
                      answers, devices, cut, ended, named>>
    BY <1>1, Types DEF IInv, Connect, serverVars
  <2>2. accepted \in Connections \cup {0}
    BY TypeIsSmall DEF IInv
  <2> QED BY <2>1, <2>2, Types, TypesAgain DEF IInv
<1>3. Nodes'
  BY DEF IInv, TypeOK, Nodes, Connect, serverVars
<1>4. Wires'
  <2>1. client # 0 => client \notin open \/ client \in cut
    BY Types DEF IInv, Connect, connected
  <2>2. client \in Nat /\ Connections \subseteq Nat
    BY Types, Numbers DEF IInv
  <2>3. \A c \in Connections :
          /\ c < client + 1 => c < client \/ c = client
          /\ c > client + 1 => c > client /\ c # client + 1
          /\ c = client + 1 => ~(c < client + 1)
    BY <2>2
  <2> QED BY <2>1, <2>3, Numbers DEF IInv, Wires, Connect
<1>5. OnItsWay' /\ InPart' /\ OfTheHolder'
  BY <1>1, Numbers DEF IInv, TypeOK, OnItsWay, InPart, OfTheHolder, busyLink, Connect
<1>6. Holder' /\ ServedOnce' /\ AnswersMatch'
  <2>1. mutex # Nobody /\ thread[mutex].at = "send" => partial # Len(told)
    BY DEF IInv, ServedOnce
  <2> QED BY <1>1, <2>1 DEF IInv, Holder, ServedOnce, AnswersMatch, Connect, serverVars
<1> QED BY <1>2, <1>3, <1>4, <1>5, <1>6 DEF IInv

LEMMA ServeKeeps ==
  ASSUME IInv, Serve
  PROVE  IInv'
<1> DEFINE r == commands[client][1].call
<1>1. client \in Connections /\ commands[client] # <<>> /\ partial = NoCommand
  BY Types, Numbers DEF IInv, Serve, connected
<1>2. commands[client] \in Seq(Command) /\ served \in Seq(Nat) /\ told \in Seq(Results)
  BY <1>1, Types DEF IInv
<1>3. Len(commands[client]) = 1 /\ answers[client] = <<>> /\ Fresh(r)
  BY <1>1, Numbers DEF IInv, OnItsWay
<1>5. /\ commands[client][1] \in Command /\ Tail(commands[client]) = <<>>
      /\ Head(commands[client]) = commands[client][1]
  BY <1>2, <1>3, OfOne
<1>4. r \in Nat
  BY <1>5 DEF Command
<1>6. client \in open =>
        /\ mutex # Nobody /\ thread[mutex].at \in {"recv", "body", "close"}
        /\ thread[mutex].node = client /\ r = Len(told)
  BY <1>1, Numbers DEF IInv, OfTheHolder, busyLink
<1>7. mutex # Nobody /\ thread[mutex].at = "send" => r # Len(told)
  BY <1>1, Numbers DEF IInv, ServedOnce
<1>8. /\ served' = Append(served, r) /\ commands' = [commands EXCEPT ![client] = <<>>]
      /\ answers' = IF client \in open \ cut
                    THEN [answers EXCEPT ![client] = <<r>>] ELSE answers
      /\ client' = client /\ told' = told /\ partial' = partial /\ open' = open
      /\ cut' = cut /\ ended' = ended /\ mutex' = mutex /\ thread' = thread
      /\ devices' = devices /\ accepted' = accepted /\ named' = named
  <2>1. Append(answers[client], r) = <<r>>
    BY <1>3
  <2> QED BY <2>1, <1>5 DEF Serve, serverVars, answered
<1> HIDE DEF r
<1>9. TypeOK'
  <2>1. commands' \in [Connections -> Seq(Command)]
    BY <1>1, <1>8, Types DEF IInv
  <2>2. answers' \in [Connections -> Seq(Nat)]
    BY <1>1, <1>4, <1>8, Types DEF IInv
  <2>3. served' \in Seq(Nat)
    BY <1>2, <1>4, <1>8
  <2> QED BY <1>8, <2>1, <2>2, <2>3, Types, TypeIsSmall, TypesAgain DEF IInv
<1>10. Nodes' /\ Holder' /\ AnswersMatch'
  BY <1>8 DEF IInv, Nodes, Holder, AnswersMatch
<1>11. commands'[client] = <<>>
  BY <1>1, <1>8, Types DEF IInv
<1>12. answers'[client] = IF client \in open \ cut THEN <<r>> ELSE <<>>
  BY <1>1, <1>3, <1>8, Types DEF IInv
<1>13. \A c \in Connections \ {client} :
         commands'[c] = commands[c] /\ answers'[c] = answers[c]
  BY <1>8, Types DEF IInv
<1>14. Wires'
  BY <1>8, <1>11, <1>12, <1>13 DEF IInv, Wires
<1>15. ServedOnce'
  BY <1>1, <1>2, <1>3, <1>4, <1>7, <1>8, <1>11 DEF IInv, ServedOnce, Fresh
<1>16. Len(served) + 1 \in DOMAIN served' /\ served'[Len(served) + 1] = r
  BY <1>2, <1>4, <1>8
<1>17. OnItsWay'
  BY <1>6, <1>8, <1>11, <1>12, <1>16 DEF OnItsWay
<1>18. InPart' /\ OfTheHolder'
  BY <1>1, <1>6, <1>8, <1>11 DEF InPart, OfTheHolder
<1> QED BY <1>9, <1>10, <1>14, <1>15, <1>17, <1>18 DEF IInv

LEMMA ReadPartKeeps ==
  ASSUME IInv, ReadPart
  PROVE  IInv'
<1> DEFINE r == commands[client][1].call
<1>1. client \in Connections /\ commands[client] # <<>> /\ partial = NoCommand
  BY Types, Numbers DEF IInv, ReadPart, connected
<1>2. commands[client] \in Seq(Command) /\ served \in Seq(Nat) /\ told \in Seq(Results)
  BY <1>1, Types DEF IInv
<1>3. Len(commands[client]) = 1 /\ answers[client] = <<>> /\ Fresh(r)
  BY <1>1, Numbers DEF IInv, OnItsWay
<1>5. /\ commands[client][1] \in Command /\ Tail(commands[client]) = <<>>
      /\ Head(commands[client]) = commands[client][1]
  BY <1>2, <1>3, OfOne
<1>4. r \in Nat
  BY <1>5 DEF Command
<1>6. client \in open =>
        /\ mutex # Nobody /\ thread[mutex].at \in {"recv", "body", "close"}
        /\ thread[mutex].node = client /\ r = Len(told)
  BY <1>1, Numbers DEF IInv, OfTheHolder, busyLink
<1>7. mutex # Nobody /\ thread[mutex].at = "send" => r # Len(told)
  BY <1>1, Numbers DEF IInv, ServedOnce
<1>8. /\ partial' = r /\ commands' = [commands EXCEPT ![client] = <<>>]
      /\ client' = client /\ told' = told /\ served' = served /\ open' = open
      /\ cut' = cut /\ ended' = ended /\ mutex' = mutex /\ thread' = thread /\ answers' = answers
      /\ devices' = devices /\ accepted' = accepted /\ named' = named
  BY <1>5 DEF ReadPart, serverVars
<1> HIDE DEF r
<1>9. TypeOK'
  <2>1. commands' \in [Connections -> Seq(Command)]
    BY <1>1, <1>8, Types DEF IInv
  <2> QED BY <1>4, <1>8, <2>1, Types, TypeIsSmall, TypesAgain DEF IInv
<1>10. Nodes' /\ Holder' /\ AnswersMatch'
  BY <1>8 DEF IInv, Nodes, Holder, AnswersMatch
<1>11. commands'[client] = <<>>
  BY <1>1, <1>8, Types DEF IInv
<1>12. \A c \in Connections \ {client} : commands'[c] = commands[c]
  BY <1>8, Types DEF IInv
<1>13. Wires'
  BY <1>8, <1>11, <1>12 DEF IInv, Wires
<1>14. ServedOnce'
  BY <1>7, <1>8, <1>11 DEF IInv, ServedOnce
<1>15. OnItsWay' /\ InPart'
  BY <1>1, <1>3, <1>8, <1>11, Numbers DEF OnItsWay, InPart, Fresh
<1>16. OfTheHolder'
  BY <1>1, <1>6, <1>8, <1>11 DEF OfTheHolder
<1> QED BY <1>9, <1>10, <1>13, <1>14, <1>15, <1>16 DEF IInv

LEMMA ReadRestKeeps ==
  ASSUME IInv, ReadRest
  PROVE  IInv'
<1>1. /\ client \in Connections /\ client \notin cut
      /\ commands[client] = <<>> /\ answers[client] = <<>>
      /\ partial # NoCommand /\ Fresh(partial)
  BY Types, Numbers DEF IInv, InPart, ReadRest
<1>2. partial \in Nat /\ served \in Seq(Nat) /\ told \in Seq(Results)
  BY Types DEF IInv
<1>3. client \in open =>
        /\ mutex # Nobody /\ thread[mutex].at \in {"recv", "body", "close"}
        /\ thread[mutex].node = client /\ partial = Len(told)
  BY <1>1, Numbers DEF IInv, OfTheHolder, busyLink
<1>4. /\ client' = client /\ told' = told /\ open' = open /\ commands' = commands
      /\ mutex' = mutex /\ thread' = thread /\ partial' = NoCommand /\ cut' = cut /\ ended' = ended
      /\ devices' = devices /\ accepted' = accepted /\ named' = named
  BY DEF ReadRest, serverVars
<1>5. Nodes' /\ Holder' /\ AnswersMatch'
  BY <1>4 DEF IInv, Nodes, Holder, AnswersMatch
<1>6. mutex # Nobody /\ thread[mutex].at = "send" => Len(told) # NoCommand
  BY Numbers DEF IInv, Holder
<1>7. CASE UNCHANGED <<served, answers>>
  <2>1. TypeOK'
    <3>1. partial' \in Nat
      BY <1>4, Numbers
    <3> QED BY <1>4, <1>7, <3>1, Types, TypeIsSmall, TypesAgain DEF IInv
  <2>2. Wires' /\ ServedOnce'
    BY <1>4, <1>6, <1>7 DEF IInv, Wires, ServedOnce
  <2>3. OnItsWay' /\ InPart' /\ OfTheHolder'
    BY <1>1, <1>4, <1>7 DEF OnItsWay, InPart, OfTheHolder, busyLink
  <2> QED BY <1>5, <2>1, <2>2, <2>3 DEF IInv
<1>8. CASE served' = Append(served, partial) /\ answered(partial)
  <2>1. answers' = IF client \in open THEN [answers EXCEPT ![client] = <<partial>>]
                   ELSE answers
    BY <1>1, <1>8 DEF answered
  <2>2. /\ answers' \in [Connections -> Seq(Nat)]
        /\ answers'[client] = IF client \in open THEN <<partial>> ELSE <<>>
        /\ \A c \in Connections \ {client} : answers'[c] = answers[c]
    BY <1>1, <1>2, <2>1, Types DEF IInv
  <2>3. TypeOK'
    <3>1. served' \in Seq(Nat)
      BY <1>2, <1>8
    <3>2. partial' \in Nat
      BY <1>4, Numbers
    <3> QED BY <1>4, <2>2, <3>1, <3>2, Types, TypeIsSmall, TypesAgain DEF IInv
  <2>4. Wires'
    BY <1>1, <1>4, <2>2 DEF IInv, Wires
  <2>5. ServedOnce'
    BY <1>1, <1>2, <1>4, <1>6, <1>8 DEF IInv, ServedOnce, Fresh
  <2>6. Len(served) + 1 \in DOMAIN served' /\ served'[Len(served) + 1] = partial
    BY <1>2, <1>8
  <2>7. OnItsWay'
    BY <1>1, <1>3, <1>4, <2>2, <2>6 DEF OnItsWay
  <2>8. InPart' /\ OfTheHolder'
    BY <1>1, <1>3, <1>4 DEF InPart, OfTheHolder
  <2> QED BY <1>5, <2>3, <2>4, <2>5, <2>7, <2>8 DEF IInv
<1> QED BY <1>7, <1>8 DEF ReadRest

LEMMA CutKeeps ==
  ASSUME IInv, NEW c \in Connections, Cut(c)
  PROVE  IInv'
<1>1. /\ commands' \in [Connections -> Seq(Command)]
      /\ answers' \in [Connections -> Seq(Nat)]
      /\ commands'[c] = commands[c] \/ commands'[c] = <<>>
      /\ answers'[c] = <<>>
      /\ \A d \in Connections \ {c} :
           commands'[d] = commands[d] /\ answers'[d] = answers[d]
  <2>1. /\ commands \in [Connections -> Seq(Command)]
        /\ answers \in [Connections -> Seq(Nat)]
    BY Types DEF IInv
  <2>2. answers' = [answers EXCEPT ![c] = <<>>]
    BY DEF Cut
  <2>3. CASE commands' = commands
    BY <2>1, <2>2, <2>3
  <2>4. CASE commands' = [commands EXCEPT ![c] = <<>>]
    BY <2>1, <2>2, <2>4
  <2> QED BY <2>3, <2>4 DEF Cut
<1>2. /\ client' = client /\ told' = told /\ served' = served /\ open' = open
      /\ mutex' = mutex /\ thread' = thread /\ partial' = partial
      /\ devices' = devices /\ accepted' = accepted /\ named' = named
      /\ cut' = cut \cup {c} /\ ended' = ended /\ c <= client
  BY DEF Cut, serverVars
<1>3. client # 0 => client \in Connections
  BY Types DEF IInv
<1>4. TypeOK'
  <2>1. cut' \subseteq Connections
    BY <1>2, Types DEF IInv
  <2> QED BY <1>1, <1>2, <2>1, Types, TypeIsSmall, TypesAgain DEF IInv
<1>5. Nodes' /\ Holder' /\ AnswersMatch'
  BY <1>2 DEF IInv, Nodes, Holder, AnswersMatch
<1>6. Wires'
  <2>1. \A d \in Connections : d > client => d # c
    BY <1>2, Types, Numbers DEF IInv
  <2> QED BY <1>1, <1>2, <2>1 DEF IInv, Wires
<1>7. client # 0 =>
        /\ commands'[client] = commands[client] \/ commands'[client] = <<>>
        /\ answers'[client] = answers[client] \/ answers'[client] = <<>>
  BY <1>1, <1>3
<1>8. ServedOnce' /\ OnItsWay' /\ InPart'
  BY <1>2, <1>7 DEF IInv, ServedOnce, OnItsWay, InPart, Fresh
<1>9. OfTheHolder'
  BY <1>2, <1>7 DEF IInv, OfTheHolder, busyLink
<1> QED BY <1>4, <1>5, <1>6, <1>8, <1>9 DEF IInv

LEMMA EndKeeps ==
  ASSUME IInv, End
  PROVE  IInv'
<1>1. /\ client' = client /\ told' = told /\ served' = served /\ open' = open
      /\ mutex' = mutex /\ thread' = thread /\ partial' = partial
      /\ devices' = devices /\ accepted' = accepted /\ named' = named
      /\ commands' = commands /\ answers' = answers
      /\ cut' = cut \cup {client} /\ ended' = ended \cup {client}
      /\ client \in open
  BY DEF End, serverVars, masterVars
<1>2. client \in Connections
  BY <1>1, Types DEF IInv
<1>3. TypeOK'
  <2>1. cut' \subseteq Connections /\ ended' \subseteq cut'
    BY <1>1, <1>2, Types DEF IInv
  <2> QED BY <1>1, <2>1, Types, TypeIsSmall, TypesAgain DEF IInv
<1>4. Nodes' /\ Holder' /\ AnswersMatch' /\ ServedOnce'
  BY <1>1 DEF IInv, Nodes, Holder, AnswersMatch, ServedOnce
<1>5. Wires'
  <2>1. \A d \in Connections : d > client => d # client
    BY Types, Numbers DEF IInv
  <2> QED BY <1>1, <2>1 DEF IInv, Wires
<1>6. OnItsWay' /\ InPart' /\ OfTheHolder'
  BY <1>1 DEF IInv, OnItsWay, InPart, OfTheHolder, busyLink, Fresh
<1> QED BY <1>3, <1>4, <1>5, <1>6 DEF IInv

LEMMA RestartKeeps ==
  ASSUME IInv, Restart
  PROVE  IInv'
<1>1. client \in Connections
  BY Types DEF IInv, InPart, Restart
<1>2. /\ commands' \in [Connections -> Seq(Command)]
      /\ answers' \in [Connections -> Seq(Nat)]
      /\ commands'[client] = <<>> /\ answers'[client] = <<>>
      /\ \A d \in Connections \ {client} :
           commands'[d] = commands[d] /\ answers'[d] = answers[d]
  BY <1>1, Types DEF IInv, Restart
<1>3. /\ client' = client /\ told' = told /\ served' = served /\ open' = open
      /\ mutex' = mutex /\ thread' = thread /\ partial' = NoCommand
      /\ devices' = devices /\ accepted' = accepted /\ named' = named
      /\ cut' = cut \cup {client} /\ ended' = ended
  BY DEF Restart, serverVars
<1>4. TypeOK'
  <2>1. cut' \subseteq Connections /\ partial' \in Nat
    BY <1>1, <1>3, Types, Numbers DEF IInv
  <2> QED BY <1>2, <1>3, <2>1, Types, TypeIsSmall, TypesAgain DEF IInv
<1>5. Nodes' /\ Holder' /\ AnswersMatch'
  BY <1>3 DEF IInv, Nodes, Holder, AnswersMatch
<1>6. Wires'
  <2>1. \A d \in Connections : d > client => d # client
    BY Types, Numbers DEF IInv
  <2> QED BY <1>2, <1>3, <2>1 DEF IInv, Wires
<1>7. mutex # Nobody => Len(told) # NoCommand
  BY Numbers DEF IInv, Holder
<1>8. ServedOnce' /\ OnItsWay' /\ InPart' /\ OfTheHolder'
  BY <1>2, <1>3, <1>7 DEF IInv, ServedOnce, OnItsWay, InPart, OfTheHolder, busyLink
<1> QED BY <1>4, <1>5, <1>6, <1>8 DEF IInv
-----------------------------------------------------------------------------
(* The server's steps *)

LEMMA Goes ==
  ASSUME TypeOK, NEW t \in Threads, NEW p \in Places, thread' = goes(t, p)
  PROVE  /\ thread' \in ThreadType
         /\ thread'[t].at = p /\ thread'[t].node = thread[t].node
         /\ thread'[t].call = thread[t].call
         /\ \A u \in Threads \ {t} : thread'[u] = thread[u]
BY Types DEF goes, ThreadType

\* What a thread that is in the calling code has.
LEMMA Has ==
  ASSUME IInv, NEW t \in Threads, thread[t].at \in Inside
  PROVE  /\ mutex = t /\ mutex # Nobody
         /\ thread[t].call = Len(told) /\ Len(told) # 0 /\ Len(told) \in DOMAIN told
         /\ thread[t].node \in Connections /\ thread[t].node <= client
         /\ \A u \in Threads \ {t} : thread[u].at \notin Inside
<1>1. mutex = t /\ mutex # Nobody
  BY Numbers DEF IInv, Holder
<1>2. thread[t].call = Len(told) /\ Len(told) # 0
  BY <1>1 DEF IInv, Holder
<1>3. told \in Seq(Results)
  BY Types DEF IInv
<1>4. Len(told) \in DOMAIN told
  BY <1>2, <1>3
<1>5. thread[t].node # 0 /\ thread[t].node <= accepted
  BY Words DEF IInv, Nodes
<1>6. thread[t].node \in 0 .. MaxConnections
  BY Types DEF IInv, ThreadType
<1>7. thread[t].node \in Connections /\ thread[t].node <= client
  <2>1. client \in Nat /\ accepted \in Nat /\ accepted <= client
    BY Types DEF IInv, Nodes
  <2> QED BY <1>5, <1>6, <2>1, Numbers
<1>8. \A u \in Threads \ {t} : thread[u].at \notin Inside
  BY <1>1 DEF IInv, Holder
<1> QED BY <1>1, <1>2, <1>4, <1>7, <1>8

\* What is known of Nodes stays if no thread takes another one.
LEMMA NodesKept ==
  ASSUME IInv, accepted' = accepted, client' = client,
         \A i \in DOMAIN devices' : \E k \in DOMAIN devices : devices'[i] = devices[k],
         \A u \in Threads : /\ thread'[u].node = thread[u].node
                            /\ thread'[u].at # "idle" => thread[u].at # "idle"
  PROVE  Nodes'
<1>1. /\ accepted' <= client'
      /\ \A i \in DOMAIN devices' : devices'[i] <= accepted'
  BY DEF IInv, Nodes
<1>2. \A u \in Threads :
        thread'[u].at # "idle" => thread'[u].node # 0 /\ thread'[u].node <= accepted'
  BY DEF IInv, Nodes
<1>3. thread'[Listener].at # "idle" => thread'[Listener].node = accepted'
  BY Numbers DEF IInv, Nodes
<1>4. \A c \in Checkers :
        thread'[c].at # "idle" =>
          c <= accepted' /\ (thread'[Listener].at # "idle" => c < accepted')
  BY Numbers DEF IInv, Nodes
<1> QED BY <1>1, <1>2, <1>3, <1>4 DEF Nodes

LEMMA ReceivePartKeeps ==
  ASSUME IInv, NEW t \in Threads, ReceivePart(t)
  PROVE  IInv'
<1>1. thread[t].at = "recv" /\ thread' = goes(t, "body")
  BY DEF ReceivePart
<1>2. /\ mutex = t /\ mutex # Nobody
      /\ thread[t].call = Len(told)
      /\ \A u \in Threads \ {t} : thread[u].at \notin Inside
  BY <1>1, Has, Words
<1>3. /\ client' = client /\ told' = told /\ served' = served /\ open' = open
      /\ mutex' = mutex /\ partial' = partial /\ commands' = commands
      /\ answers' = answers /\ devices' = devices /\ accepted' = accepted
      /\ named' = named /\ cut' = cut /\ ended' = ended
  BY DEF ReceivePart, masterVars, netVars
<1>4. /\ thread' \in ThreadType
      /\ thread'[t].at = "body" /\ thread'[t].node = thread[t].node
      /\ thread'[t].call = thread[t].call
      /\ \A u \in Threads \ {t} : thread'[u] = thread[u]
  BY <1>1, Goes, Words DEF IInv
<1>5. TypeOK'
  BY <1>3, <1>4, Types, TypeIsSmall, TypesAgain DEF IInv
<1>6. Nodes'
  BY <1>1, <1>3, <1>4, NodesKept
<1>7. Wires' /\ AnswersMatch' /\ OnItsWay' /\ InPart'
  BY <1>3 DEF IInv, Wires, AnswersMatch, OnItsWay, InPart, Fresh
<1>8. Holder'
  BY <1>1, <1>2, <1>3, <1>4, Words DEF IInv, Holder
<1>9. ServedOnce'
  BY <1>2, <1>3, <1>4 DEF IInv, ServedOnce
<1>10. OfTheHolder'
  BY <1>2, <1>3, <1>4 DEF IInv, OfTheHolder, busyLink
<1> QED BY <1>5, <1>6, <1>7, <1>8, <1>9, <1>10 DEF IInv

LEMMA TimeoutKeeps ==
  ASSUME IInv, NEW t \in Threads, Timeout(t)
  PROVE  IInv'
<1>1. thread[t].at \in {"recv", "body"} /\ thread' = goes(t, "close")
  BY DEF Timeout
<1>2. /\ mutex = t /\ mutex # Nobody
      /\ thread[t].call = Len(told)
      /\ \A u \in Threads \ {t} : thread[u].at \notin Inside
  BY <1>1, Has, Words
<1>3. /\ client' = client /\ told' = told /\ served' = served /\ open' = open
      /\ mutex' = mutex /\ partial' = partial /\ commands' = commands
      /\ answers' = answers /\ devices' = devices /\ accepted' = accepted
      /\ named' = named /\ cut' = cut /\ ended' = ended
  BY DEF Timeout, masterVars, netVars
<1>4. /\ thread' \in ThreadType
      /\ thread'[t].at = "close" /\ thread'[t].node = thread[t].node
      /\ thread'[t].call = thread[t].call
      /\ \A u \in Threads \ {t} : thread'[u] = thread[u]
  BY <1>1, Goes, Words DEF IInv
<1>5. TypeOK'
  BY <1>3, <1>4, Types, TypeIsSmall, TypesAgain DEF IInv
<1>6. Nodes'
  BY <1>1, <1>3, <1>4, NodesKept
<1>7. Wires' /\ AnswersMatch' /\ OnItsWay' /\ InPart'
  BY <1>3 DEF IInv, Wires, AnswersMatch, OnItsWay, InPart, Fresh
<1>8. Holder'
  BY <1>1, <1>2, <1>3, <1>4, Words DEF IInv, Holder
<1>9. ServedOnce'
  BY <1>2, <1>3, <1>4 DEF IInv, ServedOnce
<1>10. OfTheHolder'
  BY <1>2, <1>3, <1>4 DEF IInv, OfTheHolder, busyLink
<1> QED BY <1>5, <1>6, <1>7, <1>8, <1>9, <1>10 DEF IInv

LEMMA AcceptKeeps ==
  ASSUME IInv, Accept
  PROVE  IInv'
<1>1. /\ client' = client /\ told' = told /\ served' = served /\ open' = open
      /\ mutex' = mutex /\ partial' = partial /\ commands' = commands
      /\ answers' = answers /\ devices' = devices
      /\ named' = named /\ cut' = cut /\ ended' = ended /\ accepted' = accepted + 1
  BY DEF Accept, masterVars, netVars
<1>2. accepted \in Nat /\ client \in Nat /\ accepted + 1 <= client
  BY Types DEF IInv, Accept
<1>3. accepted + 1 \in Connections
  BY <1>2, Types, Numbers DEF IInv
<1>4. /\ thread' \in ThreadType /\ thread[Listener].at = "idle"
      /\ thread'[Listener].at = "lock" /\ thread'[Listener].node = accepted + 1
      /\ \A u \in Threads \ {Listener} : thread'[u] = thread[u]
  <2>1. accepted + 1 \in 0 .. MaxConnections /\ Listener \in Threads
    BY <1>3, Numbers
  <2>2. thread \in ThreadType
    BY Types DEF IInv
  <2> QED BY <2>1, <2>2, Words DEF Accept, ThreadType
<1>5. TypeOK'
  BY <1>1, <1>3, <1>4, Types, TypeIsSmall, TypesAgain DEF IInv
<1>6. Nodes'
  <2>1. accepted' <= client' /\ accepted' # 0
    BY <1>1, <1>2
  <2>2. \A i \in DOMAIN devices' : devices'[i] <= accepted'
    <3> SUFFICES ASSUME NEW i \in DOMAIN devices PROVE devices[i] <= accepted + 1
      BY <1>1
    <3>1. devices[i] \in Nat
      <4>1. devices[i] \in Connections
        BY Types DEF IInv
      <4> QED BY <4>1, Numbers
    <3> QED BY <3>1, <1>2 DEF IInv, Nodes
  <2>3. \A u \in Threads :
          thread'[u].at # "idle" => thread'[u].node # 0 /\ thread'[u].node <= accepted'
    <3> SUFFICES ASSUME NEW u \in Threads \ {Listener}, thread[u].at # "idle"
                 PROVE  thread[u].node # 0 /\ thread[u].node <= accepted + 1
      BY <1>1, <1>2, <1>4
    <3>1. thread[u].node \in Nat
      BY Types, Numbers DEF IInv, ThreadType
    <3> QED BY <3>1, <1>2 DEF IInv, Nodes
  <2>4. \A c \in Checkers : thread'[c].at # "idle" => c <= accepted' /\ c < accepted'
    <3> SUFFICES ASSUME NEW c \in Checkers, thread[c].at # "idle"
                 PROVE  c <= accepted + 1 /\ c < accepted + 1
      BY <1>1, <1>4, Numbers
    <3>1. c \in Nat
      BY Numbers
    <3> QED BY <3>1, <1>2 DEF IInv, Nodes
  <2> QED BY <2>1, <2>2, <2>3, <2>4, <1>1, <1>4 DEF Nodes
<1>7. Wires' /\ AnswersMatch' /\ OnItsWay' /\ InPart'
  BY <1>1 DEF IInv, Wires, AnswersMatch, OnItsWay, InPart, Fresh
<1>8. mutex # Listener
  BY <1>4, Numbers, Words DEF IInv, Holder
<1>9. mutex # Nobody => thread'[mutex] = thread[mutex]
  BY <1>4, <1>8, Types DEF IInv
<1>10. Holder'
  <2>1. \A u \in Threads : thread'[u].at \in Inside <=> thread[u].at \in Inside
    BY <1>4, Words DEF Inside, Calling
  <2> QED BY <1>1, <1>9, <2>1 DEF IInv, Holder
<1>11. ServedOnce' /\ OfTheHolder'
  BY <1>1, <1>9 DEF IInv, ServedOnce, OfTheHolder, busyLink
<1> QED BY <1>5, <1>6, <1>7, <1>10, <1>11 DEF IInv

LEMMA LookupKeeps ==
  ASSUME IInv, NEW t \in Web, Lookup(t)
  PROVE  IInv'
<1>1. /\ client' = client /\ told' = told /\ served' = served /\ open' = open
      /\ mutex' = mutex /\ partial' = partial /\ commands' = commands
      /\ answers' = answers /\ devices' = devices /\ accepted' = accepted
      /\ named' = named /\ cut' = cut /\ ended' = ended
  BY DEF Lookup, masterVars, netVars
<1>2. t \in Threads /\ t # Listener /\ t \notin Checkers /\ thread[t].at = "idle"
  BY Numbers DEF Lookup
<1>3. PICK i \in DOMAIN devices :
        thread' = [thread EXCEPT ![t].at = "lock", ![t].node = devices[i],
                                 ![t].left = @ - 1]
  BY DEF Lookup
<1>4. devices[i] \in Connections /\ devices[i] <= accepted
  BY Types DEF IInv, Nodes
<1>5. devices[i] \in 0 .. MaxConnections /\ devices[i] # 0
  BY <1>4, Numbers
<1>6. thread[t].left - 1 \in 0 .. Calls + 2
  <2>1. thread[t].left \in 0 .. Calls + 2 /\ thread[t].left > 0
    BY <1>2, Types DEF IInv, ThreadType, Lookup
  <2> QED BY <2>1, Numbers
<1>7. /\ thread' \in ThreadType
      /\ thread'[t].at = "lock" /\ thread'[t].node = devices[i]
      /\ \A u \in Threads \ {t} : thread'[u] = thread[u]
  BY <1>2, <1>3, <1>5, <1>6, Words, Types DEF IInv, ThreadType
<1>8. TypeOK'
  BY <1>1, <1>7, Types, TypeIsSmall, TypesAgain DEF IInv
<1>9. Nodes'
  BY <1>1, <1>2, <1>4, <1>5, <1>7, Numbers DEF IInv, Nodes
<1>10. Wires' /\ AnswersMatch' /\ OnItsWay' /\ InPart'
  BY <1>1 DEF IInv, Wires, AnswersMatch, OnItsWay, InPart, Fresh
<1>11. mutex # t
  BY <1>2, Words DEF IInv, Holder
<1>12. mutex # Nobody => thread'[mutex] = thread[mutex]
  BY <1>7, <1>11, Types DEF IInv
<1>13. Holder'
  <2>1. \A u \in Threads : thread'[u].at \in Inside <=> thread[u].at \in Inside
    BY <1>2, <1>7, Words DEF Inside, Calling
  <2> QED BY <1>1, <1>12, <2>1 DEF IInv, Holder
<1>14. ServedOnce' /\ OfTheHolder'
  BY <1>1, <1>12 DEF IInv, ServedOnce, OfTheHolder, busyLink
<1> QED BY <1>8, <1>9, <1>10, <1>13, <1>14 DEF IInv

LEMMA CloseKeeps ==
  ASSUME IInv, NEW t \in Threads, Close(t)
  PROVE  IInv'
<1> DEFINE n == thread[t].node
<1>1. thread[t].at = "close" /\ thread' = goes(t, "remove")
  BY DEF Close
<1>2. /\ mutex = t /\ mutex # Nobody /\ n \in Connections
      /\ thread[t].call = Len(told)
      /\ \A u \in Threads \ {t} : thread[u].at \notin Inside
  BY <1>1, Has, Words
<1>3. /\ client' = client /\ told' = told /\ served' = served
      /\ open' = open \ {n} /\ answers' = [answers EXCEPT ![n] = <<>>]
      /\ mutex' = mutex /\ partial' = partial /\ commands' = commands
      /\ devices' = devices /\ accepted' = accepted
      /\ named' = named /\ cut' = cut /\ ended' = ended
  BY DEF Close, masterVars
<1>4. /\ thread' \in ThreadType
      /\ thread'[t].at = "remove" /\ thread'[t].node = n
      /\ thread'[t].call = thread[t].call
      /\ \A u \in Threads \ {t} : thread'[u] = thread[u]
  BY <1>1, Goes, Words DEF IInv
<1> HIDE DEF n
<1>5. /\ answers' \in [Connections -> Seq(Nat)] /\ answers'[n] = <<>>
      /\ \A d \in Connections \ {n} : answers'[d] = answers[d]
  BY <1>2, <1>3, Types DEF IInv
<1>6. TypeOK'
  <2>1. open' \subseteq Connections
    BY <1>3, Types DEF IInv
  <2> QED BY <1>3, <1>4, <1>5, <2>1, Types, TypeIsSmall, TypesAgain DEF IInv
<1>7. Nodes'
  BY <1>1, <1>3, <1>4, NodesKept DEF n
<1>8. Wires' /\ AnswersMatch'
  BY <1>3, <1>5 DEF IInv, Wires, AnswersMatch
<1>9. client # 0 =>
        answers'[client] = <<>> \/ (answers'[client] = answers[client] /\ client # n)
  BY <1>2, <1>5, Types DEF IInv
<1>10. OnItsWay' /\ InPart'
  BY <1>3, <1>9 DEF IInv, OnItsWay, InPart, Fresh
<1>11. Holder'
  BY <1>1, <1>2, <1>3, <1>4, Words DEF IInv, Holder
<1>12. ServedOnce'
  BY <1>2, <1>3, <1>4 DEF IInv, ServedOnce
<1>13. OfTheHolder'
  <2>1. client \in open /\ busyLink => thread[t].node = client
    BY <1>2 DEF IInv, OfTheHolder
  <2>2. client' \in open' /\ busyLink' => client \in open /\ client # n /\ busyLink
    BY <1>3, <1>9 DEF busyLink
  <2> QED BY <2>1, <2>2 DEF OfTheHolder, n
<1> QED BY <1>6, <1>7, <1>8, <1>10, <1>11, <1>12, <1>13 DEF IInv

LEMMA LockKeeps ==
  ASSUME IInv, NEW t \in Threads, Lock(t)
  PROVE  IInv'
<1>1. /\ client' = client /\ served' = served /\ open' = open
      /\ partial' = partial /\ commands' = commands
      /\ answers' = answers /\ devices' = devices /\ accepted' = accepted
      /\ named' = named /\ cut' = cut /\ ended' = ended
      /\ thread[t].at = "lock" /\ mutex = Nobody /\ mutex' = t
      /\ told' = Append(told, "none")
  BY DEF Lock, masterVars, netVars
<1>2. told \in Seq(Results) /\ served \in Seq(Nat)
  BY Types DEF IInv
<1>3. /\ told' \in Seq(Results) /\ Len(told') = Len(told) + 1
      /\ told'[Len(told) + 1] = "none"
      /\ \A r \in DOMAIN told : r \in DOMAIN told' /\ told'[r] = told[r]
      /\ DOMAIN told' = 1 .. Len(told) + 1 /\ DOMAIN told = 1 .. Len(told)
  BY <1>1, <1>2 DEF Results
<1>4. /\ thread' \in ThreadType
      /\ thread'[t].at = "send" /\ thread'[t].node = thread[t].node
      /\ thread'[t].call = Len(told')
      /\ \A u \in Threads \ {t} : thread'[u] = thread[u]
  <2>1. thread \in ThreadType /\ Len(told) + 1 \in Nat
    BY <1>2, Types DEF IInv
  <2>2. thread' = [thread EXCEPT ![t].at = "send", ![t].call = Len(told) + 1]
    BY DEF Lock
  <2> QED BY <2>1, <2>2, <1>3 DEF ThreadType, Places
<1>5. TypeOK'
  BY <1>1, <1>3, <1>4, Types, TypeIsSmall, TypesAgain DEF IInv
<1>6. Nodes'
  BY <1>1, <1>4, NodesKept
<1>7. Wires'
  BY <1>1 DEF IInv, Wires
<1>8. t \in Nat /\ t # Nobody
  BY Numbers
<1>9. \A u \in Threads : thread[u].at \notin Inside
  BY <1>1, Numbers DEF IInv, Holder
<1>10. \A r \in DOMAIN told : told[r] # "none"
  BY <1>1 DEF IInv, Holder
<1>11. Holder'
  <2>1. \A u \in Threads : mutex' = u <=> thread'[u].at \in Inside
    BY <1>1, <1>4, <1>9, Words
  <2>2. /\ thread'[mutex'].call = Len(told') /\ Len(told') # 0
        /\ told'[Len(told')] = "none" /\ thread'[mutex'].at \in Calling
    BY <1>1, <1>2, <1>3, <1>4, Words
  <2>3. \A r \in DOMAIN told' : told'[r] = "none" => r = Len(told')
    BY <1>2, <1>3, <1>10
  <2> QED BY <1>1, <1>8, <2>1, <2>2, <2>3 DEF Holder
<1>12. ~(client \in open /\ busyLink)
  BY <1>1 DEF IInv, OfTheHolder
<1>13. client # 0 => answers[client] = <<>>
  <2>1. client # 0 /\ answers[client] # <<>> => client \in open
    BY Types DEF IInv, Wires
  <2> QED BY <1>12, <2>1 DEF busyLink
<1>14. client # 0 /\ commands[client] # <<>> => commands[client][1].call \in DOMAIN told
  BY DEF IInv, OnItsWay, Fresh
<1>15. partial # NoCommand => partial \in DOMAIN told
  BY DEF IInv, InPart, Fresh
<1>16. Len(told') \notin DOMAIN told /\ Len(told') # NoCommand
  BY <1>2, <1>3, Numbers
<1>17. ServedOnce'
  BY <1>1, <1>3, <1>14, <1>15, <1>16 DEF IInv, ServedOnce
<1>18. \A r : Fresh(r) => Fresh(r)'
  BY <1>1, <1>3 DEF Fresh
<1>19. OnItsWay' /\ InPart'
  BY <1>1, <1>13, <1>18 DEF IInv, OnItsWay, InPart
<1>20. OfTheHolder'
  BY <1>1, <1>12 DEF OfTheHolder, busyLink
<1>21. AnswersMatch'
  BY <1>2, <1>3 DEF IInv, AnswersMatch
<1> QED BY <1>5, <1>6, <1>7, <1>11, <1>17, <1>19, <1>20, <1>21 DEF IInv


LEMMA SendKeeps ==
  ASSUME IInv, NEW t \in Threads, Send(t)
  PROVE  IInv'
<1> DEFINE n == thread[t].node
<1>1. /\ client' = client /\ told' = told /\ served' = served /\ open' = open
      /\ mutex' = mutex /\ partial' = partial /\ answers' = answers
      /\ devices' = devices /\ accepted' = accepted
      /\ named' = named /\ cut' = cut /\ ended' = ended /\ thread[t].at = "send"
  BY DEF Send, masterVars
<1>2. PICK p \in {"recv", "close"} : thread' = goes(t, p)
  BY DEF Send
<1>3. p \in Calling /\ p \in Inside /\ p \in Places
  BY DEF Calling, Inside, Places
<1>4. /\ mutex = t /\ mutex # Nobody /\ n \in Connections /\ n <= client
      /\ thread[t].call = Len(told) /\ Len(told) # 0 /\ Len(told) \in DOMAIN told
      /\ \A u \in Threads \ {t} : thread[u].at \notin Inside
  BY <1>1, Has, Words
<1>5. /\ thread' \in ThreadType
      /\ thread'[t].at = p /\ thread'[t].node = n
      /\ thread'[t].call = thread[t].call
      /\ \A u \in Threads \ {t} : thread'[u] = thread[u]
  BY <1>2, <1>3, Goes DEF IInv
<1>6. Nodes'
  BY <1>1, <1>5, NodesKept DEF n
<1>7. Holder'
  BY <1>1, <1>3, <1>4, <1>5, Words DEF IInv, Holder
<1>8. ~(client \in open /\ busyLink)
  BY <1>1, <1>4 DEF IInv, OfTheHolder
<1>9. ServedOnce' /\ AnswersMatch'
  BY <1>1, <1>4, <1>5 DEF IInv, ServedOnce, AnswersMatch
<1>10. CASE commands' = commands
  <2>1. TypeOK'
    BY <1>1, <1>5, <1>10, Types, TypeIsSmall, TypesAgain DEF IInv
  <2>2. Wires' /\ OnItsWay' /\ InPart'
    BY <1>1, <1>10 DEF IInv, Wires, OnItsWay, InPart, Fresh
  <2>3. OfTheHolder'
    BY <1>1, <1>8, <1>10 DEF OfTheHolder, busyLink
  <2> QED BY <1>6, <1>7, <1>9, <2>1, <2>2, <2>3 DEF IInv
<1>11. ASSUME n \in open, n \notin cut, NEW long \in BOOLEAN,
              commands' = [commands EXCEPT
                ![n] = Append(@, [call |-> thread[t].call, long |-> long])]
       PROVE  IInv'
  <2> DEFINE command == [call |-> Len(told), long |-> long]
  <2>1. client = n
    <3>1. client \in Nat /\ n \in Nat /\ ~(n < client)
      BY <1>4, <1>11, Types, Numbers DEF IInv, Wires
    <3> QED BY <3>1, <1>4
  <2>2. commands[client] = <<>> /\ answers[client] = <<>> /\ partial = NoCommand
    BY <1>8, <1>4, <1>11, <2>1, Numbers DEF busyLink
  <2>3. command \in Command /\ command.call = Len(told)
    <3>1. Len(told) \in Nat
      BY Types DEF IInv
    <3> QED BY <3>1 DEF Command
  <2>4. commands' = [commands EXCEPT ![client] = <<command>>]
    <3>1. Append(commands[n], command) = <<command>>
      BY <2>1, <2>2
    <3> QED BY <2>1, <3>1, <1>4, <1>11
  <2> HIDE DEF command
  <2>5. /\ commands' \in [Connections -> Seq(Command)]
        /\ commands'[client] = <<command>>
        /\ \A c \in Connections \ {client} : commands'[c] = commands[c]
    BY <1>4, <2>1, <2>3, <2>4, Types DEF IInv
  <2>6. TypeOK'
    BY <1>1, <1>5, <2>5, Types, TypeIsSmall, TypesAgain DEF IInv
  <2>7. Wires'
    <3>1. \A c \in Connections : c > client => c # client
      BY Types, Numbers DEF IInv
    <3> QED BY <1>1, <2>5, <3>1 DEF IInv, Wires
  <2>8. Fresh(Len(told))
    <3> SUFFICES ASSUME NEW q \in DOMAIN served
                 PROVE  served[q] < Len(told)
      BY <1>4 DEF Fresh
    <3>1. served[q] \in DOMAIN told /\ served[q] # Len(told)
      BY <1>1, <1>4 DEF IInv, ServedOnce
    <3>2. told \in Seq(Results)
      BY Types DEF IInv
    <3> QED BY <3>1, <3>2
  <2>9. Len(commands'[client]) = 1 /\ commands'[client][1].call = Len(told)
    BY <2>3, <2>5
  <2>10. OnItsWay' /\ InPart'
    BY <1>1, <2>2, <2>8, <2>9 DEF OnItsWay, InPart, Fresh
  <2>11. OfTheHolder'
    BY <1>1, <1>4, <1>5, <1>11, <2>1, <2>2, <2>9 DEF OfTheHolder
  <2> QED BY <1>6, <1>7, <1>9, <2>6, <2>7, <2>10, <2>11 DEF IInv
<1> QED BY <1>10, <1>11 DEF Send

LEMMA ReceiveKeeps ==
  ASSUME IInv, NEW t \in Threads, Receive(t)
  PROVE  IInv'
<1> DEFINE n == thread[t].node
<1>1. /\ client' = client /\ served' = served /\ open' = open
      /\ mutex' = mutex /\ partial' = partial /\ commands' = commands
      /\ devices' = devices /\ accepted' = accepted /\ cut' = cut /\ ended' = ended
      /\ thread[t].at \in {"recv", "body"} /\ thread' = goes(t, "release")
      /\ n \in open /\ n \notin ended /\ answers[n] # <<>>
      /\ named' \subseteq named \cup {n}
  BY DEF Receive, masterVars
<1>2. /\ mutex = t /\ mutex # Nobody /\ n \in Connections /\ n <= client
      /\ thread[t].call = Len(told) /\ Len(told) # 0 /\ Len(told) \in DOMAIN told
      /\ \A u \in Threads \ {t} : thread[u].at \notin Inside
  BY <1>1, Has, Words
<1>3. /\ thread' \in ThreadType
      /\ thread'[t].at = "release" /\ thread'[t].node = n
      /\ thread'[t].call = thread[t].call
      /\ \A u \in Threads \ {t} : thread'[u] = thread[u]
  BY <1>1, Goes, Words DEF IInv
<1>4. client = n
  <2>1. client \in Nat /\ n \in Nat /\ ~(n < client)
    BY <1>1, <1>2, Types, Numbers DEF IInv, Wires
  <2> QED BY <2>1, <1>2
<1>5. /\ Len(answers[n]) = 1 /\ answers[n][1] = Len(told) /\ commands[n] = <<>>
      /\ \E q \in DOMAIN served : served[q] = Len(told)
  BY <1>1, <1>2, <1>4, Numbers DEF IInv, OnItsWay
<1>6. partial = NoCommand
  BY <1>1, <1>4 DEF IInv, InPart
<1>7. Head(answers[n]) = Len(told) /\ Tail(answers[n]) = <<>>
  <2>1. answers[n] \in Seq(Nat)
    BY <1>2, Types DEF IInv
  <2> QED BY <2>1, <1>5, OfOne
<1>8. /\ told' = [told EXCEPT ![Len(told)] = "ok"]
      /\ answers' = [answers EXCEPT ![n] = <<>>]
  BY <1>2, <1>7 DEF Receive, outcome
<1> HIDE DEF n
<1>9. /\ answers' \in [Connections -> Seq(Nat)] /\ answers'[client] = <<>>
      /\ \A c \in Connections \ {client} : answers'[c] = answers[c]
  BY <1>2, <1>4, <1>8, Types DEF IInv
<1>10. /\ told' \in Seq(Results) /\ Len(told') = Len(told)
       /\ DOMAIN told' = DOMAIN told /\ told'[Len(told)] = "ok"
       /\ \A r \in DOMAIN told : r # Len(told) => told'[r] = told[r]
  <2>1. told \in Seq(Results)
    BY Types DEF IInv
  <2> QED BY <1>2, <1>8, <2>1 DEF Results
<1>11. TypeOK'
  <2>1. named' \subseteq Connections
    BY <1>1, <1>2, Types DEF IInv
  <2> QED BY <1>1, <1>3, <1>9, <1>10, <2>1, Types, TypeIsSmall, TypesAgain DEF IInv
<1>12. Nodes'
  BY <1>1, <1>3, NodesKept DEF n
<1>13. Wires'
  BY <1>1, <1>9 DEF IInv, Wires
<1>14. Holder'
  BY <1>1, <1>2, <1>3, <1>10, Words DEF IInv, Holder
<1>15. ServedOnce'
  BY <1>1, <1>2, <1>3, <1>10 DEF IInv, ServedOnce
<1>16. OnItsWay' /\ InPart' /\ OfTheHolder'
  BY <1>1, <1>4, <1>5, <1>6, <1>9 DEF OnItsWay, InPart, OfTheHolder, busyLink
<1>17. AnswersMatch'
  BY <1>10 DEF IInv, AnswersMatch
<1> QED BY <1>11, <1>12, <1>13, <1>14, <1>15, <1>16, <1>17 DEF IInv

LEMMA RemoveKeeps ==
  ASSUME IInv, NEW t \in Threads, Remove(t)
  PROVE  IInv'
<1>1. /\ client' = client /\ served' = served /\ open' = open
      /\ mutex' = mutex /\ partial' = partial /\ commands' = commands
      /\ answers' = answers /\ accepted' = accepted /\ cut' = cut /\ ended' = ended
      /\ named' = named
      /\ thread[t].at = "remove" /\ thread' = goes(t, "release")
  BY DEF Remove, masterVars, netVars
<1>2. /\ mutex = t /\ mutex # Nobody
      /\ thread[t].call = Len(told) /\ Len(told) # 0 /\ Len(told) \in DOMAIN told
      /\ \A u \in Threads \ {t} : thread[u].at \notin Inside
  BY <1>1, Has, Words
<1>3. /\ thread' \in ThreadType
      /\ thread'[t].at = "release" /\ thread'[t].node = thread[t].node
      /\ thread'[t].call = thread[t].call
      /\ \A u \in Threads \ {t} : thread'[u] = thread[u]
  BY <1>1, Goes, Words DEF IInv
<1>4. /\ told' \in Seq(Results) /\ Len(told') = Len(told)
      /\ DOMAIN told' = DOMAIN told /\ told'[Len(told)] = "failed"
      /\ \A r \in DOMAIN told : r # Len(told) => told'[r] = told[r]
  <2>1. told \in Seq(Results) /\ told' = [told EXCEPT ![Len(told)] = "failed"]
    BY <1>2, Types DEF IInv, Remove
  <2> QED BY <1>2, <2>1 DEF Results
<1>5. /\ devices' \in Seq(Connections)
      /\ \A i \in DOMAIN devices' : \E k \in DOMAIN devices : devices'[i] = devices[k]
  <2>1. devices \in Seq(Connections)
    BY Types DEF IInv
  <2>2. CASE UNCHANGED devices
    BY <2>1, <2>2
  <2>3. ASSUME NEW i \in DOMAIN devices,
               devices' = SubSeq(devices, 1, i - 1)
                          \o SubSeq(devices, i + 1, Len(devices))
        PROVE  /\ devices' \in Seq(Connections)
               /\ \A j \in DOMAIN devices' :
                    \E k \in DOMAIN devices : devices'[j] = devices[k]
    <3>1. i \in 1 .. Len(devices)
      BY <2>1
    <3> QED BY <2>1, <2>3, <3>1, WithoutOne
  <2> QED BY <2>2, <2>3 DEF Remove
<1>6. TypeOK'
  BY <1>1, <1>3, <1>4, <1>5, Types, TypeIsSmall, TypesAgain DEF IInv
<1>7. Nodes'
  BY <1>1, <1>3, <1>5, NodesKept
<1>8. Wires'
  BY <1>1 DEF IInv, Wires
<1>9. Holder'
  BY <1>1, <1>2, <1>3, <1>4, Words DEF IInv, Holder
<1>10. ServedOnce'
  BY <1>1, <1>2, <1>3, <1>4 DEF IInv, ServedOnce
<1>11. OnItsWay' /\ InPart'
  BY <1>1, <1>4 DEF IInv, OnItsWay, InPart, Fresh
<1>12. OfTheHolder'
  <2>1. ~(client \in open /\ busyLink)
    BY <1>1, <1>2 DEF IInv, OfTheHolder
  <2> QED BY <1>1, <2>1 DEF OfTheHolder, busyLink
<1>13. AnswersMatch'
  BY <1>4 DEF IInv, AnswersMatch
<1> QED BY <1>6, <1>7, <1>8, <1>9, <1>10, <1>11, <1>12, <1>13 DEF IInv

LEMMA ReleaseKeeps ==
  ASSUME IInv, NEW t \in Threads, Release(t)
  PROVE  IInv'
<1>1. /\ client' = client /\ served' = served /\ open' = open /\ told' = told
      /\ mutex' = Nobody /\ partial' = partial /\ commands' = commands
      /\ answers' = answers /\ devices' = devices /\ accepted' = accepted
      /\ cut' = cut /\ ended' = ended /\ named' = named /\ thread[t].at = "release"
  BY DEF Release, masterVars, netVars
<1>2. /\ mutex = t /\ mutex # Nobody
      /\ \A u \in Threads \ {t} : thread[u].at \notin Inside
  BY <1>1, Has, Words
<1>3. /\ thread' \in ThreadType
      /\ thread'[t].at \in {"lock", "list", "idle"}
      /\ thread'[t].node = thread[t].node
      /\ \A u \in Threads \ {t} : thread'[u] = thread[u]
  <2>0. thread \in ThreadType
    BY Types DEF IInv
  <2>1. CASE thread' = [thread EXCEPT ![t].at = "lock", ![t].left = @ - 1]
             /\ thread[t].left > 0
    <3>1. thread[t].left - 1 \in 0 .. Calls + 2
      <4>1. thread[t].left \in 0 .. Calls + 2
        BY <2>0 DEF ThreadType
      <4> QED BY <4>1, <2>1, Numbers
    <3> QED BY <2>0, <2>1, <3>1 DEF ThreadType, Places
  <2>2. CASE thread' = goes(t, IF t = Listener THEN "list" ELSE "idle")
    BY <2>0, <2>2 DEF ThreadType, Places, goes
  <2> QED BY <2>1, <2>2 DEF Release
<1>4. TypeOK'
  BY <1>1, <1>3, Types, TypeIsSmall, TypesAgain DEF IInv
<1>5. Nodes'
  BY <1>1, <1>3, NodesKept
<1>6. Wires' /\ AnswersMatch' /\ OnItsWay' /\ InPart'
  BY <1>1 DEF IInv, Wires, AnswersMatch, OnItsWay, InPart, Fresh
<1>7. Holder'
  <2>1. \A u \in Threads : mutex' # u /\ thread'[u].at \notin Inside
    BY <1>1, <1>2, <1>3, Numbers, Words
  <2>2. \A r \in DOMAIN told : told[r] # "none"
    BY <1>1, <1>2, Words DEF IInv, Holder
  <2> QED BY <1>1, <2>1, <2>2 DEF Holder
<1>8. ServedOnce'
  BY <1>1 DEF IInv, ServedOnce
<1>9. OfTheHolder'
  <2>1. ~(client \in open /\ busyLink)
    BY <1>1, <1>2 DEF IInv, OfTheHolder
  <2> QED BY <1>1, <2>1 DEF OfTheHolder, busyLink
<1> QED BY <1>4, <1>5, <1>6, <1>7, <1>8, <1>9 DEF IInv

LEMMA ListKeeps ==
  ASSUME IInv, List
  PROVE  IInv'
<1> DEFINE n == thread[Listener].node
<1>1. /\ client' = client /\ served' = served /\ open' = open /\ told' = told
      /\ mutex' = mutex /\ partial' = partial /\ commands' = commands
      /\ answers' = answers /\ devices' = Append(devices, n) /\ accepted' = accepted
      /\ cut' = cut /\ ended' = ended /\ named' = named /\ thread[Listener].at = "list"
      /\ thread' = [thread EXCEPT ![Listener].at = "idle",
                  ![n] = [@ EXCEPT !.at = "lock", !.node = n, !.left = 1]]
  BY DEF List, masterVars, netVars
<1>2. n = accepted /\ n # 0
  BY <1>1, Numbers DEF IInv, Nodes
<1>3. n \in Connections /\ n \in Checkers /\ n \in Threads /\ n # Listener
  BY <1>2, TypeIsSmall, Numbers DEF IInv
<1>4. thread[n].at = "idle"
  <2>1. ~(n < accepted)
    BY <1>2, Types DEF IInv
  <2> QED BY <2>1, <1>1, <1>3 DEF IInv, Nodes
<1> HIDE DEF n
<1>5. /\ thread' \in ThreadType
      /\ thread'[Listener].at = "idle" /\ thread'[Listener].node = n
      /\ thread'[n].at = "lock" /\ thread'[n].node = n
      /\ \A u \in Threads \ {Listener, n} : thread'[u] = thread[u]
  <2>1. thread \in ThreadType /\ n \in 0 .. MaxConnections /\ Listener \in Threads
        /\ 1 \in 0 .. Calls + 2
    BY <1>3, Types, Numbers DEF IInv
  <2> QED BY <2>1, <1>1, <1>3 DEF ThreadType, Places, n
<1>6. devices' \in Seq(Connections)
  BY <1>1, <1>3, Types DEF IInv
<1>7. TypeOK'
  BY <1>1, <1>5, <1>6, Types, TypeIsSmall, TypesAgain DEF IInv
<1>8. Nodes'
  <2>1. \A i \in DOMAIN devices' : devices'[i] <= accepted'
    <3>1. devices \in Seq(Connections) /\ accepted \in Nat
      BY Types DEF IInv
    <3>2. \A i \in DOMAIN devices : devices[i] <= accepted
      BY DEF IInv, Nodes
    <3> QED BY <1>1, <1>2, <1>3, <3>1, <3>2
  <2>2. \A u \in Threads :
          thread'[u].at # "idle" => thread'[u].node # 0 /\ thread'[u].node <= accepted'
    <3>1. n <= accepted
      BY <1>2, Types DEF IInv
    <3> QED BY <1>1, <1>2, <1>5, <3>1 DEF IInv, Nodes
  <2>3. \A c \in Checkers : thread'[c].at # "idle" => c <= accepted'
    <3>1. n <= accepted
      BY <1>2, Types DEF IInv
    <3> QED BY <1>1, <1>5, <3>1, Numbers DEF IInv, Nodes
  <2> QED BY <1>1, <1>5, <2>1, <2>2, <2>3 DEF IInv, Nodes
<1>9. Wires' /\ AnswersMatch' /\ OnItsWay' /\ InPart'
  BY <1>1 DEF IInv, Wires, AnswersMatch, OnItsWay, InPart, Fresh
<1>10. mutex # n /\ mutex # Listener
  BY <1>1, <1>3, <1>4, Numbers, Words DEF IInv, Holder
<1>11. mutex # Nobody => thread'[mutex] = thread[mutex]
  BY <1>5, <1>10, Types DEF IInv
<1>12. Holder'
  <2>1. \A u \in Threads : thread'[u].at \in Inside <=> thread[u].at \in Inside
    BY <1>1, <1>4, <1>5, Words DEF Inside, Calling
  <2> QED BY <1>1, <1>11, <2>1 DEF IInv, Holder
<1>13. ServedOnce' /\ OfTheHolder'
  BY <1>1, <1>11 DEF IInv, ServedOnce, OfTheHolder, busyLink
<1> QED BY <1>7, <1>8, <1>9, <1>12, <1>13 DEF IInv
-----------------------------------------------------------------------------
LEMMA IInvInit == Init => IInv
<1> SUFFICES ASSUME Init PROVE IInv
  OBVIOUS
<1>1. TypeOK
  BY PanelConstants, Numbers, Words DEF Init, TypeOK
<1>2. Nodes /\ Wires /\ Holder /\ ServedOnce /\ OnItsWay /\ InPart /\ OfTheHolder
  BY Numbers, Words DEF Init, Nodes, Wires, Holder, ServedOnce, OnItsWay, InPart,
     OfTheHolder, busyLink
<1>3. AnswersMatch
  BY DEF Init, AnswersMatch
<1> QED BY <1>1, <1>2, <1>3 DEF IInv

LEMMA IInvStutters ==
  ASSUME IInv, UNCHANGED vars
  PROVE  IInv'
BY DEF IInv, vars, serverVars, masterVars, netVars, TypeOK, Nodes, Wires, Holder,
       ServedOnce, OnItsWay, InPart, OfTheHolder, busyLink, Fresh, AnswersMatch

LEMMA IInvNext == IInv /\ [Next]_vars => IInv'
<1> SUFFICES ASSUME IInv, [Next]_vars PROVE IInv'
  OBVIOUS
<1>1. CASE Connect \/ Serve \/ ReadPart \/ ReadRest \/ End \/ Restart
  BY <1>1, ConnectKeeps, ServeKeeps, ReadPartKeeps, ReadRestKeeps, EndKeeps,
     RestartKeeps
<1>2. CASE \E c \in Connections : Cut(c)
  BY <1>2, CutKeeps
<1>3. CASE Accept
  BY <1>3, AcceptKeeps
<1>4. CASE \E t \in Web : Lookup(t)
  BY <1>4, LookupKeeps
<1>5. ASSUME NEW t \in Threads, Run(t) PROVE IInv'
  BY <1>5, LockKeeps, SendKeeps, ReceivePartKeeps, ReceiveKeeps, TimeoutKeeps,
     CloseKeeps, RemoveKeeps, ReleaseKeeps, ListKeeps DEF Run, Step
<1>6. CASE UNCHANGED vars
  BY <1>6, IInvStutters
<1> QED BY <1>1, <1>2, <1>3, <1>4, <1>5, <1>6 DEF Next

\* The invariant, for any number of connections, threads and calls.
THEOREM Invariance == Spec => []IInv
<1> QED BY IInvInit, IInvNext, PTL DEF Spec

\* Every variable keeps its type.
THEOREM TypeCorrect == Spec => []TypeOK
<1>1. IInv => TypeOK
  BY DEF IInv
<1> QED BY <1>1, Invariance, PTL

\* No call ever takes the answer of another.
THEOREM EachGetsItsAnswer == Spec => []AnswersMatch
<1>1. IInv => AnswersMatch
  BY DEF IInv
<1> QED BY <1>1, Invariance, PTL
-----------------------------------------------------------------------------
(* What the link promises: PanelCalls. *)

\* Only the holder's call waits.
LEMMA WaitingIsHolder ==
  ASSUME IInv
  PROVE  /\ \A t \in Threads : thread[t].at \in Calling =>
              /\ Len(told) \in PanelCalls!Waiting /\ thread[t].call = Len(told)
         /\ mutex = Nobody => PanelCalls!Waiting = {}
<1>1. ASSUME NEW t \in Threads, thread[t].at \in Calling
      PROVE  Len(told) \in PanelCalls!Waiting /\ thread[t].call = Len(told)
  <2>1. mutex = t /\ mutex # Nobody /\ thread[t].call = Len(told)
        /\ Len(told) \in DOMAIN told
    BY <1>1, Has, Words
  <2> QED BY <2>1, <1>1 DEF IInv, Holder, PanelCalls!Waiting
<1>2. mutex = Nobody => PanelCalls!Waiting = {}
  BY DEF IInv, Holder, PanelCalls!Waiting
<1> QED BY <1>1, <1>2

\* Serving r, which is fresh, is a step of PanelCalls.
LEMMA ServedFresh ==
  ASSUME NEW r, Fresh(r), served' = Append(served, r), told' = told
  PROVE  PanelCalls!Next
<1>1. \A q \in PanelCalls!Served : q < r
  BY DEF Fresh, PanelCalls!Served
<1>2. r \in DOMAIN told
  BY DEF Fresh
<1> QED BY <1>1, <1>2 DEF PanelCalls!Next, PanelCalls!Serve

LEMMA LinkStep == IInv /\ [Next]_vars => [PanelCalls!Next]_<<told, served>>
<1> SUFFICES ASSUME IInv, [Next]_vars PROVE [PanelCalls!Next]_<<told, served>>
  OBVIOUS
<1>1. CASE Connect \/ ReadPart \/ End \/ Restart \/ Accept \/ List
  BY <1>1 DEF Connect, ReadPart, End, Restart, Accept, List, serverVars, masterVars
<1>2. CASE Serve
  <2>1. client \in Connections /\ commands[client] # <<>>
    BY <1>2, Types, Numbers DEF IInv, Serve, connected
  <2>2. Len(commands[client]) = 1 /\ Fresh(commands[client][1].call)
    BY <2>1, Numbers DEF IInv, OnItsWay
  <2>3. commands[client] \in Seq(Command)
    BY <2>1, Types DEF IInv
  <2>4. Head(commands[client]) = commands[client][1]
    BY <2>2, <2>3, OfOne
  <2> QED BY <1>2, <2>2, <2>4, ServedFresh DEF Serve, serverVars
<1>3. CASE ReadRest
  <2>1. Fresh(partial) /\ told' = told
    BY <1>3 DEF IInv, InPart, ReadRest, serverVars
  <2>2. served' = served \/ served' = Append(served, partial)
    BY <1>3 DEF ReadRest
  <2> QED BY <2>1, <2>2, ServedFresh
<1>4. CASE \E c \in Connections : Cut(c)
  BY <1>4 DEF Cut, serverVars
<1>5. CASE \E t \in Web : Lookup(t)
  BY <1>5 DEF Lookup, masterVars
<1>6. ASSUME NEW t \in Threads, Lock(t) PROVE PanelCalls!Next
  BY <1>6, WaitingIsHolder DEF Lock, masterVars, PanelCalls!Next, PanelCalls!Call
<1>7. ASSUME NEW t \in Threads,
             Send(t) \/ ReceivePart(t) \/ Timeout(t) \/ Close(t) \/ Release(t)
      PROVE  UNCHANGED <<told, served>>
  BY <1>7 DEF Send, ReceivePart, Timeout, Close, Release, masterVars
<1>8. ASSUME NEW t \in Threads, Receive(t) PROVE PanelCalls!Next
  <2>1. thread[t].at \in Calling /\ thread[t].at \in Inside
    BY <1>8, Words DEF Receive
  <2>2. Len(told) \in PanelCalls!Waiting /\ thread[t].call = Len(told)
    BY <2>1, WaitingIsHolder
  <2>3. served' = served
    BY <1>8 DEF Receive, masterVars
  <2>4. /\ answers[thread[t].node] # <<>>
        /\ thread[t].node \in open /\ thread[t].node \notin ended
        /\ told' = [told EXCEPT ![Len(told)]
                      = outcome(t, Head(answers[thread[t].node]))]
    BY <1>8, <2>2 DEF Receive
  <2>5. thread[t].node \in Connections /\ thread[t].node <= client
    BY <2>1, Has
  <2>6. thread[t].node = client
    <3>1. client \in Nat /\ thread[t].node \in Nat /\ ~(thread[t].node < client)
      BY <2>4, <2>5, Types, Numbers DEF IInv, Wires
    <3> QED BY <3>1, <2>5
  <2>7. /\ Len(answers[client]) = 1 /\ answers[client][1] = Len(told)
        /\ Len(told) \in PanelCalls!Served
    BY <2>4, <2>5, <2>6, Numbers DEF IInv, OnItsWay, PanelCalls!Served
  <2>8. Head(answers[client]) = Len(told)
    <3>1. answers[client] \in Seq(Nat)
      BY <2>5, <2>6, Types DEF IInv
    <3> QED BY <3>1, <2>7, OfOne
  <2>9. told' = [told EXCEPT ![Len(told)] = "ok"]
    BY <2>2, <2>4, <2>6, <2>8 DEF outcome
  <2>10. PanelCalls!Return(Len(told), "ok")
    BY <2>2, <2>3, <2>7, <2>9 DEF PanelCalls!Return
  <2> QED BY <2>2, <2>10 DEF PanelCalls!Next, PanelCalls!Outcomes, PanelCalls!Waiting
<1>9. ASSUME NEW t \in Threads, Remove(t) PROVE PanelCalls!Next
  <2>1. Len(told) \in PanelCalls!Waiting /\ thread[t].call = Len(told)
    BY <1>9, WaitingIsHolder, Words DEF Remove
  <2>2. PanelCalls!Return(Len(told), "failed")
    BY <1>9, <2>1 DEF Remove, masterVars, PanelCalls!Return
  <2> QED BY <2>1, <2>2 DEF PanelCalls!Next, PanelCalls!Outcomes, PanelCalls!Waiting
<1>10. CASE UNCHANGED vars
  BY <1>10 DEF vars, serverVars, masterVars
<1> QED BY <1>1, <1>2, <1>3, <1>4, <1>5, <1>6, <1>7, <1>8, <1>9, <1>10
   DEF Next, Run, Step

\* The link implements PanelCalls: calls are served in the order they were made,
\* each at most once, and none returns an answer that was not served.
THEOREM LinkKeepsCalls == Spec => CallsAreKept
<1>1. Init => PanelCalls!Init
  BY DEF Init, PanelCalls!Init
<1> QED BY <1>1, Invariance, LinkStep, PTL DEF Spec, CallsAreKept, PanelCalls!Spec
=============================================================================
