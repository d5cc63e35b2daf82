--------------------------- MODULE TcpChatProofs ---------------------------
(***************************************************************************)
(* Proofs about TcpChat, for any number of clients, either server, and any *)
(* length of the lines, the answers and the streams.                       *)
(***************************************************************************)
EXTENDS TcpChat, TLAPS

USE DEF server, streams, errors, vars, Clients

ServerLabels == {"setup", "accept", "deaf", "recv", "reply", "gone"}
ClientLabels == {"off", "prompt", "recv", "ended"}
Errors == {"none", "pending", "reported"}

LEMMA InitTyped == Init => TypeOK
<1> SUFFICES ASSUME Init PROVE TypeOK
  OBVIOUS
<1>1. queue \in Seq(Clients)
  BY DEF Init
<1> QED
  BY <1>1, TcpChatAssumption DEF Init, TypeOK

-----------------------------------------------------------------------------
(* What the kernel's operators do to the types. *)

LEMMA EndTyped ==
  ASSUME TypeOK, NEW c \in Clients, End(c)
  PROVE  cpc' \in [Clients -> ClientLabels] /\ serverErr' \in [Clients -> Errors]
BY DEF TypeOK, End, ClientLabels, Errors

LEMMA HangUpTyped ==
  ASSUME TypeOK, NEW S, HangUp(S)
  PROVE  hungUp' \in [Clients -> BOOLEAN] /\ clientErr' \in [Clients -> Errors]
<1>1. hungUp' \in [Clients -> BOOLEAN]
  BY DEF TypeOK, HangUp
<1>2. clientErr' \in [Clients -> Errors]
  BY DEF TypeOK, HangUp, Errors
<1> QED
  BY <1>1, <1>2

LEMMA DieTyped ==
  ASSUME TypeOK, Die
  PROVE  /\ spc' = "gone" /\ current' = NoClient /\ queue' = << >> /\ queue' \in Seq(Clients)
         /\ hungUp' \in [Clients -> BOOLEAN] /\ clientErr' \in [Clients -> Errors]
<1>1. HangUp(ToSet(queue) \cup ({current} \ {NoClient}))
  BY DEF Die
<1>2. hungUp' \in [Clients -> BOOLEAN] /\ clientErr' \in [Clients -> Errors]
  BY <1>1, HangUpTyped
<1> QED
  BY <1>2 DEF Die

LEMMA NextConnectionTyped ==
  ASSUME TypeOK, NextConnection
  PROVE  /\ spc' = "accept" /\ current' = NoClient /\ queue' = queue
         /\ hungUp' \in [Clients -> BOOLEAN] /\ clientErr' \in [Clients -> Errors]
BY HangUpTyped DEF NextConnection

LEMMA StepTyped == TypeOK /\ [Next]_vars => TypeOK'
<1> SUFFICES ASSUME TypeOK, [Next]_vars PROVE TypeOK'
  OBVIOUS
<1> USE TcpChatAssumption, NoClientAssumption DEF TypeOK
<1>1. ASSUME NEW c \in Clients, MacConnect(c) \/ WinConnect(c) PROVE TypeOK'
  <2>1. CASE Connected(c)
    <3>1. queue' \in Seq(Clients) /\ cpc' \in [Clients -> ClientLabels]
      BY <2>1 DEF Connected, ClientLabels
    <3> QED
      BY <1>1, <2>1, <3>1 DEF MacConnect, WinConnect, Connected, ClientLabels
  <2>2. CASE NotConnected(c)
    BY <1>1, <2>2 DEF MacConnect, WinConnect, NotConnected
  <2> QED
    BY <1>1, <2>1, <2>2 DEF MacConnect, WinConnect
<1>2. ASSUME NEW c \in Clients, NEW k \in 1 .. LineMax, SendLine(c, k) PROVE TypeOK'
  <2>1. cpc' \in [Clients -> ClientLabels] /\ asked' \in [Clients -> 0 .. LineMax]
    BY <1>2 DEF SendLine, ClientLabels
  <2>2. CASE hungUp[c]
    <3>1. clientErr' \in [Clients -> Errors] /\ toServer' = toServer
      BY <1>2, <2>2 DEF SendLine, Errors
    <3> QED
      BY <1>2, <2>1, <3>1 DEF SendLine, ClientLabels, Errors
  <2>3. CASE ~hungUp[c]
    <3>1. toServer[c] + k \in 0 .. StreamMax /\ toServer' = [toServer EXCEPT ![c] = @ + k]
      BY <1>2, <2>3 DEF SendLine
    <3>2. toServer' \in [Clients -> 0 .. StreamMax]
      BY <3>1
    <3> QED
      BY <1>2, <2>1, <2>3, <3>2 DEF SendLine, ClientLabels
  <2> QED
    BY <2>2, <2>3
<1>3. ASSUME NEW c \in Clients, SendFails(c) PROVE TypeOK'
  <2>1. CASE End(c) /\ UNCHANGED clientErr
    BY <1>3, <2>1, EndTyped DEF SendFails, ClientLabels, Errors
  <2>2. CASE ~(End(c) /\ UNCHANGED clientErr)
    <3>1. /\ cpc' = [cpc EXCEPT ![c] = "recv"]
          /\ clientErr' = [clientErr EXCEPT ![c] = "reported"]
          /\ UNCHANGED <<server, asked, streams, hungUp, serverErr>>
      BY <1>3, <2>2, Zenon DEF SendFails
    <3>2. cpc' \in [Clients -> ClientLabels] /\ clientErr' \in [Clients -> Errors]
      BY <3>1 DEF ClientLabels, Errors
    <3> QED
      BY <3>1, <3>2 DEF server, streams
  <2> QED
    BY <2>1, <2>2
<1>4. ASSUME NEW c \in Clients, Quit(c) PROVE TypeOK'
  BY <1>4, EndTyped DEF Quit, ClientLabels, Errors
<1>5. ASSUME NEW c \in Clients, Receive(c) PROVE TypeOK'
  <2>1. toClient' \in [Clients -> 0 .. StreamMax]
    BY <1>5 DEF Receive, Least
  <2> QED
    BY <1>5, <2>1 DEF Receive
<1>6. ASSUME NEW c \in Clients, ReceiveEnd(c) PROVE TypeOK'
  BY <1>6 DEF ReceiveEnd
<1>7. ASSUME NEW c \in Clients, ReceiveError(c) PROVE TypeOK'
  <2>1. CASE End(c)
    BY <1>7, <2>1, EndTyped DEF ReceiveError, ClientLabels, Errors
  <2>2. CASE ~End(c)
    BY <1>7, <2>2 DEF ReceiveError
  <2> QED
    BY <2>1, <2>2
<1>8. CASE Accept
  <2>1. Head(queue) \in Clients /\ Tail(queue) \in Seq(Clients)
    BY <1>8 DEF Accept
  <2> QED
    BY <1>8, <2>1 DEF Accept
<1>9. CASE Hear
  <2>1. current \in Clients
    BY <1>9 DEF Hear
  <2>2. toServer' \in [Clients -> 0 .. StreamMax]
    BY <1>9, <2>1 DEF Hear, HearMax, Least
  <2> QED
    BY <1>9, <2>1, <2>2 DEF Hear
<1>10. CASE HearEnd
  BY <1>10, NextConnectionTyped DEF HearEnd, Errors
<1>11. CASE HearError
  <2>1. serverErr' \in [Clients -> Errors]
    BY <1>11 DEF HearError, Errors
  <2>2. CASE Die
    BY <1>11, <2>1, <2>2, DieTyped DEF HearError, Errors
  <2>3. CASE NextConnection
    BY <1>11, <2>1, <2>3, NextConnectionTyped DEF HearError, Errors
  <2> QED
    BY <1>11, <2>2, <2>3 DEF HearError
<1>12. ASSUME NEW k \in 1 .. ReplyMax, Reply(k) PROVE TypeOK'
  <2>1. current \in Clients
    BY <1>12 DEF Reply
  <2>2. toClient' \in [Clients -> 0 .. StreamMax] /\ serverErr' \in [Clients -> Errors]
    <3>1. CASE cpc[current] = "ended"
      BY <1>12, <2>1, <3>1 DEF Reply, Errors
    <3>2. CASE cpc[current] # "ended"
      <4>1. toClient[current] + k \in 0 .. StreamMax /\ toClient' = [toClient EXCEPT ![current] = @ + k]
        BY <1>12, <2>1, <3>2 DEF Reply
      <4> QED
        BY <1>12, <3>2, <4>1 DEF Reply, Errors
    <3> QED
      BY <3>1, <3>2
  <2> QED
    BY <1>12, <2>1, <2>2 DEF Reply, Errors
<1>13. CASE ReplyFails
  <2>1. CASE Die /\ UNCHANGED serverErr
    BY <1>13, <2>1, DieTyped DEF ReplyFails, Errors
  <2>2. CASE ~(Die /\ UNCHANGED serverErr)
    BY <1>13, <2>2 DEF ReplyFails
  <2> QED
    BY <2>1, <2>2
<1>14. CASE ReplyNothing
  BY <1>14, NextConnectionTyped DEF ReplyNothing, Errors
<1>15. CASE UNCHANGED vars
  BY <1>15
<1>16. CASE MacSetUp \/ WinSetUp
  BY <1>16 DEF MacSetUp, WinSetUp
<1>17. CASE AcceptFails
  BY <1>17, DieTyped DEF AcceptFails, Errors
<1> QED
  BY <1>1, <1>2, <1>3, <1>4, <1>5, <1>6, <1>7, <1>8, <1>9, <1>10, <1>11, <1>12, <1>13,
     <1>14, <1>15, <1>16, <1>17 DEF Next, Serve, Type, Listen

(* No stream is over-filled or over-read, the server serves a client       *)
(* exactly between two accepts, and nobody queues at a server that is gone.*)
THEOREM TypeCorrect == Spec => []TypeOK
  BY InitTyped, StepTyped, PTL DEF Spec
-----------------------------------------------------------------------------
(* An error of the server's on a connection comes from the client's end.   *)
ErrorsOfTheEnded == \A c \in Clients : serverErr[c] # "none" => cpc[c] = "ended"

LEMMA EndedStep == TypeOK /\ ErrorsOfTheEnded /\ [Next]_vars => ErrorsOfTheEnded'
<1> SUFFICES ASSUME TypeOK, ErrorsOfTheEnded, [Next]_vars, NEW x \in Clients
             PROVE  serverErr'[x] # "none" => cpc'[x] = "ended"
  BY DEF ErrorsOfTheEnded
<1> USE DEF TypeOK, ErrorsOfTheEnded
<1>1. ASSUME NEW c \in Clients, End(c) PROVE serverErr'[x] # "none" => cpc'[x] = "ended"
  BY <1>1 DEF End
<1>2. ASSUME NEW c \in Clients, MacConnect(c) \/ WinConnect(c)
      PROVE  serverErr'[x] # "none" => cpc'[x] = "ended"
  BY <1>2 DEF MacConnect, WinConnect, Connected, NotConnected
<1>3. ASSUME NEW c \in Clients, Type(c) PROVE serverErr'[x] # "none" => cpc'[x] = "ended"
  BY <1>1, <1>3 DEF Type, SendLine, SendFails
<1>4. ASSUME NEW c \in Clients, Quit(c) PROVE serverErr'[x] # "none" => cpc'[x] = "ended"
  BY <1>1, <1>4 DEF Quit
<1>5. ASSUME NEW c \in Clients, Listen(c) PROVE serverErr'[x] # "none" => cpc'[x] = "ended"
  BY <1>1, <1>5 DEF Listen, Receive, ReceiveEnd, ReceiveError
<1>6. CASE Serve
  <2>1. CASE Accept \/ Hear \/ HearEnd \/ ReplyNothing
    BY <2>1 DEF Accept, Hear, HearEnd, ReplyNothing
  <2>2. CASE HearError
    BY <2>2 DEF HearError
  <2>3. ASSUME NEW k \in 1 .. ReplyMax, Reply(k) PROVE serverErr'[x] # "none" => cpc'[x] = "ended"
    BY <2>3 DEF Reply
  <2>4. CASE ReplyFails
    BY <2>4 DEF ReplyFails
  <2> QED
    BY <1>6, <2>1, <2>2, <2>3, <2>4 DEF Serve
<1>7. CASE MacSetUp \/ WinSetUp \/ AcceptFails \/ UNCHANGED vars
  BY <1>7 DEF MacSetUp, WinSetUp, AcceptFails
<1> QED
  BY <1>2, <1>3, <1>4, <1>5, <1>6, <1>7 DEF Next

LEMMA AlwaysOfTheEnded == Spec => []ErrorsOfTheEnded
<1>1. Init => ErrorsOfTheEnded
  BY DEF Init, ErrorsOfTheEnded
<1> QED
  BY <1>1, EndedStep, TypeCorrect, PTL DEF Spec
-----------------------------------------------------------------------------
(* The wait of a client, and what ends it.                                 *)
Waits(c) == cpc[c] = "recv" /\ toClient[c] = 0 /\ ~hungUp[c] /\ clientErr[c] = "none"
Heard(c) == toServer[c] > 0 \/ (current = c /\ spc = "reply")

(* A closed connection stays closed and an error stays one.                *)
LEMMA HangUpStays ==
  ASSUME TypeOK, NEW S, HangUp(S), NEW c \in Clients, ~hungUp'[c], clientErr'[c] = "none"
  PROVE  ~hungUp[c] /\ clientErr[c] = "none" /\ c \notin S
BY DEF HangUp, TypeOK

(* A step of client c or of the server, seen by client x.                  *)
LEMMA WaitStep ==
  ASSUME TypeOK, ErrorsOfTheEnded, [Next]_vars, NEW x \in Clients,
         Waits(x) => Heard(x), Waits(x)'
  PROVE  Heard(x)'
<1> USE TcpChatAssumption, NoClientAssumption DEF Waits, Heard
<1>1. ASSUME NEW c \in Clients, MacConnect(c) \/ WinConnect(c) PROVE Heard(x)'
  BY <1>1 DEF MacConnect, WinConnect, Connected, NotConnected, TypeOK
<1>2. ASSUME NEW c \in Clients, NEW k \in 1 .. LineMax, SendLine(c, k) PROVE Heard(x)'
  <2>1. CASE x # c
    <3>1. Waits(x) /\ toServer'[x] = toServer[x] /\ current' = current /\ spc' = spc
      BY <1>2, <2>1 DEF SendLine, TypeOK
    <3> QED
      BY <3>1
  <2>2. CASE x = c
    <3>1. ~hungUp[c]
      BY <1>2, <2>2 DEF SendLine, TypeOK
    <3>2. toServer'[c] = toServer[c] + k
      BY <1>2, <3>1 DEF SendLine, TypeOK
    <3> QED
      BY <2>2, <3>2 DEF TypeOK
  <2> QED
    BY <2>1, <2>2
<1>3. ASSUME NEW c \in Clients, SendFails(c) PROVE Heard(x)'
  BY <1>3 DEF SendFails, End, TypeOK
<1>4. ASSUME NEW c \in Clients, Quit(c) PROVE Heard(x)'
  BY <1>4 DEF Quit, End, TypeOK
<1>5. ASSUME NEW c \in Clients, Receive(c) PROVE Heard(x)'
  BY <1>5 DEF Receive, TypeOK
<1>6. ASSUME NEW c \in Clients, ReceiveEnd(c) PROVE Heard(x)'
  BY <1>6 DEF ReceiveEnd, TypeOK
<1>7. ASSUME NEW c \in Clients, ReceiveError(c) PROVE Heard(x)'
  BY <1>7 DEF ReceiveError, End, TypeOK
<1>8. CASE Accept
  BY <1>8 DEF Accept, TypeOK
<1>9. CASE Hear
  <2>1. current \in Clients /\ spc' = "reply" /\ current' = current
    BY <1>9 DEF Hear, TypeOK
  <2>2. x # current => toServer'[x] = toServer[x]
    BY <1>9, <2>1 DEF Hear, TypeOK
  <2>3. Waits(x) /\ spc = "recv"
    BY <1>9 DEF Hear
  <2> QED
    BY <2>1, <2>2, <2>3
<1>10. ASSUME Die, toServer' = toServer, cpc' = cpc, toClient' = toClient PROVE Heard(x)'
  <2>1. HangUp(ToSet(queue) \cup ({current} \ {NoClient}))
    BY <1>10 DEF Die
  <2>2. ~hungUp[x] /\ clientErr[x] = "none" /\ x # current
    BY <2>1, HangUpStays
  <2> QED
    BY <1>10, <2>2
<1>11. ASSUME NextConnection, toServer' = toServer, cpc' = cpc, toClient' = toClient PROVE Heard(x)'
  <2>1. ~hungUp[x] /\ clientErr[x] = "none" /\ x # current
    BY <1>11, HangUpStays DEF NextConnection
  <2> QED
    BY <1>11, <2>1
<1>12. CASE HearEnd
  BY <1>11, <1>12 DEF HearEnd
<1>13. CASE HearError
  BY <1>10, <1>11, <1>13 DEF HearError
<1>14. ASSUME NEW k \in 1 .. ReplyMax, Reply(k) PROVE Heard(x)'
  <2>1. current \in Clients /\ spc = "reply" /\ current' = current
    BY <1>14 DEF Reply, TypeOK
  <2>2. CASE x = current
    <3>1. cpc[current] # "ended" => toClient'[current] = toClient[current] + k
      BY <1>14, <2>1 DEF Reply, TypeOK
    <3> QED
      BY <1>14, <2>1, <2>2, <3>1 DEF Reply, TypeOK
  <2>3. CASE x # current
    <3>1. toClient'[x] = toClient[x]
      BY <1>14, <2>1, <2>3 DEF Reply, TypeOK
    <3> QED
      BY <1>14, <2>1, <2>3, <3>1 DEF Reply
  <2> QED
    BY <2>2, <2>3
<1>15. CASE ReplyFails
  <2>1. CASE Die
    BY <1>10, <1>15, <2>1 DEF ReplyFails
  <2>2. CASE ~Die
    <3>1. cpc[current] = "ended" /\ current \in Clients
      BY <1>15 DEF ReplyFails, ErrorsOfTheEnded, TypeOK
    <3> QED
      BY <1>15, <2>2, <3>1 DEF ReplyFails
  <2> QED
    BY <2>1, <2>2
<1>16. CASE ReplyNothing
  BY <1>11, <1>16 DEF ReplyNothing
<1>17. CASE MacSetUp \/ WinSetUp \/ UNCHANGED vars
  BY <1>17 DEF MacSetUp, WinSetUp, TypeOK
<1>18. CASE AcceptFails
  BY <1>10, <1>18 DEF AcceptFails
<1> QED
  BY <1>1, <1>2, <1>3, <1>4, <1>5, <1>6, <1>7, <1>8, <1>9, <1>12, <1>13, <1>14, <1>15,
     <1>16, <1>17, <1>18 DEF Next, Serve, Type, Listen

(* However lines and answers are cut into pieces and whoever leaves, a     *)
(* client and the server never wait for each other.                        *)
THEOREM NobodyCrossWaits == Spec => []NoCrossWait
<1>1. NoCrossWait <=> \A c \in Clients : Waits(c) => Heard(c)
  BY DEF NoCrossWait, Waits, Heard
<1>2. Init => NoCrossWait
  BY DEF Init, NoCrossWait
<1>3. TypeOK /\ ErrorsOfTheEnded /\ NoCrossWait /\ [Next]_vars => NoCrossWait'
  <2>1. (NoCrossWait <=> \A c \in Clients : Waits(c) => Heard(c))'
    BY <1>1, PTL
  <2> QED
    BY <1>1, <2>1, WaitStep
<1> QED
  BY <1>2, <1>3, TypeCorrect, AlwaysOfTheEnded, PTL DEF Spec

-----------------------------------------------------------------------------
(* A server stops while it serves a client only when a call on that        *)
(* client's connection fails, and that takes a client that has left; one   *)
(* that waits for a client stops only if it is macServeurTCP.              *)
THEOREM OnlyResetsStop == Spec => StopsOnReset
<1> DEFINE Allowed ==
      \/ spc = "setup"
      \/ spc = "accept" /\ program = "mac"
      \/ /\ current \in Clients
         /\ serverErr[current] # "none" /\ cpc[current] = "ended"
<1>1. TypeOK /\ ErrorsOfTheEnded /\ [Next]_vars => [spc' = "gone" /\ spc # "gone" => Allowed]_vars
  <2> SUFFICES ASSUME TypeOK, ErrorsOfTheEnded, Next, spc' = "gone", spc # "gone"
               PROVE  Allowed
    OBVIOUS
  <2>1. MacSetUp \/ WinSetUp \/ AcceptFails \/ HearError \/ ReplyFails
    BY DEF Next, Serve, Accept, Hear, HearEnd, Reply, ReplyNothing, NextConnection,
           MacConnect, WinConnect, Type, SendLine, SendFails, Quit, Listen, Receive, ReceiveEnd, ReceiveError
  <2>2. CASE MacSetUp \/ WinSetUp \/ AcceptFails
    BY <2>2 DEF MacSetUp, WinSetUp, AcceptFails
  <2>3. CASE HearError \/ ReplyFails
    <3>1. current \in Clients /\ serverErr[current] # "none"
      BY <2>3 DEF HearError, ReplyFails, TypeOK
    <3> QED
      BY <3>1 DEF ErrorsOfTheEnded
  <2> QED
    BY <2>1, <2>2, <2>3
<1> QED
  BY <1>1, TypeCorrect, AlwaysOfTheEnded, PTL DEF Spec, StopsOnReset
=============================================================================
