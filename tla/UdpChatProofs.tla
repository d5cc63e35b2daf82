--------------------------- MODULE UdpChatProofs ---------------------------
(***************************************************************************)
(* Proofs about UdpChat, for any number of clients and any size of the     *)
(* socket's buffer.                                                        *)
(***************************************************************************)
EXTENDS UdpChat, TLAPS

USE DEF listener, history, vars

(* What the records of the network hold.                                   *)
LEMMA Fields ==
  ASSUME NEW c \in Clients, NEW b \in BOOLEAN
  PROVE  /\ Line(c, b) \in Datagrams /\ Line(c, b).to = "listener"
         /\ Line(c, b).client = c /\ Line(c, b).current = b
         /\ Answer(c, b) \in Datagrams /\ Answer(c, b).to = "client"
         /\ Answer(c, b).client = c /\ Answer(c, b).current = b
  BY DEF Line, Answer, Datagrams

(* Only the age of a datagram changes, and only for the client that sends. *)
LEMMA Ageing ==
  ASSUME NEW c, NEW d \in Datagrams
  PROVE  /\ Aged(d, c) \in Datagrams /\ Aged(d, c).to = d.to
         /\ Aged(d, c).client = d.client
         /\ d.client # c => Aged(d, c) = d
  BY DEF Aged, Datagrams

Lines == {d \in Datagrams : d.to = "listener"}

(* The socket holds lines of clients, no more than fit. *)
LEMMA InitTyped == Init => TypeOK
<1> SUFFICES ASSUME Init PROVE TypeOK
  OBVIOUS
<1>1. queue \in Seq(Lines) /\ Len(queue) <= QueueMax
  BY UdpChatAssumption DEF Init
<1> QED
  BY <1>1 DEF Init, TypeOK, Lines

LEMMA StepTyped == TypeOK /\ [Next]_vars => TypeOK'
<1> SUFFICES ASSUME TypeOK, [Next]_vars PROVE TypeOK'
  OBVIOUS
<1> USE UdpChatAssumption DEF TypeOK
<1>1. ASSUME NEW c \in Clients, SendLine(c) PROVE TypeOK'
  <2>1. network' \subseteq Datagrams
    <3>1. Line(c, TRUE) \in Datagrams /\ \A d \in network : Aged(d, c) \in Datagrams
      BY Fields, Ageing
    <3> QED
      BY <1>1, <3>1 DEF SendLine
  <2>2. queue' \in Seq(Lines) /\ Len(queue') = Len(queue)
    <3>1. \A i \in 1 .. Len(queue) : Aged(queue[i], c) \in Lines
      BY Ageing DEF Lines
    <3>2. queue' = [i \in 1 .. Len(queue) |-> Aged(queue[i], c)] /\ Len(queue) \in Nat
      BY <1>1 DEF SendLine
    <3> QED
      BY <3>1, <3>2
  <2> QED
    BY <1>1, <2>1, <2>2 DEF SendLine, Lines
<1>2. ASSUME NEW c \in Clients, Quit(c) PROVE TypeOK'
  BY <1>2 DEF Quit
<1>3. CASE Hear
  <2>1. Head(queue) \in Lines /\ Tail(queue) \in Seq(Lines) /\ Len(Tail(queue)) <= QueueMax
    BY <1>3 DEF Hear, Lines
  <2> QED
    BY <1>3, <2>1 DEF Hear, Lines, Datagrams
<1>4. CASE Reply
  <2>1. Answer(their_addr, answers) \in Datagrams
    BY <1>4, Fields DEF Reply
  <2> QED
    BY <1>4, <2>1 DEF Reply
<1>5. CASE Stop
  BY <1>5 DEF Stop
<1>6. ASSUME NEW d \in network, Receive(d.client, d) PROVE TypeOK'
  <2>1. network' \subseteq Datagrams /\ doubled' \in [Clients -> BOOLEAN]
    BY <1>6 DEF Receive, Leaves, Taken, Copied
  <2>2. cpc' \in [Clients -> {"prompt", "recv", "ended"}]
    BY <1>6 DEF Receive
  <2> QED
    BY <1>6, <2>1, <2>2 DEF Receive
<1>7. ASSUME NEW d \in network, Arrive(d) PROVE TypeOK'
  <2>1. d \in Lines /\ d.client \in Clients /\ d.current \in BOOLEAN
    BY <1>7 DEF Arrive, Lines, Datagrams
  <2>2. network' \subseteq Datagrams /\ doubled' \in [Clients -> BOOLEAN]
    BY <1>7 DEF Arrive, Leaves, Taken, Copied
  <2>3. lost' \in [Clients -> BOOLEAN]
    BY <1>7, <2>1 DEF Arrive, Drop
  <2>4. queue' \in Seq(Lines) /\ Len(queue') <= QueueMax
    <3>1. CASE lpc # "gone" /\ Len(queue) < QueueMax
      <4>1. queue' = Append(queue, d) /\ queue \in Seq(Lines)
        BY <1>7, <3>1 DEF Arrive, Lines
      <4> QED
        BY <2>1, <3>1, <4>1
    <3>2. CASE ~(lpc # "gone" /\ Len(queue) < QueueMax)
      BY <1>7, <3>2 DEF Arrive, Lines
    <3> QED
      BY <3>1, <3>2
  <2> QED
    BY <1>7, <2>2, <2>3, <2>4 DEF Arrive, Lines
<1>8. ASSUME NEW d \in network, Lose(d) PROVE TypeOK'
  BY <1>8 DEF Lose, Taken, Drop, Datagrams
<1>9. CASE UNCHANGED vars
  BY <1>9
<1> QED
  BY <1>1, <1>2, <1>3, <1>4, <1>5, <1>6, <1>7, <1>8, <1>9 DEF Next, Listen

(* Whoever the listener answers has an address, and its socket holds lines *)
(* only, never more than fit.                                              *)
THEOREM TypeCorrect == Spec => []TypeOK
  BY InitTyped, StepTyped, PTL DEF Spec
-----------------------------------------------------------------------------
(* A datagram of the network or the socket, as the provers like to see it. *)
Alone(c) ==
  /\ cpc[c] = "prompt" =>
       /\ \A d \in network : d.client # c
       /\ \A i \in DOMAIN queue : queue[i].client # c
       /\ ~Answered(c)
  /\ \A d \in network : d.client = c =>
       /\ d.current
       /\ \A e \in network : e.client = c => e = d
       /\ \A i \in DOMAIN queue : queue[i].client # c
       /\ ~Answered(c)
  /\ \A i \in DOMAIN queue : queue[i].client = c =>
       /\ queue[i].current
       /\ \A k \in DOMAIN queue : queue[k].client = c => k = i
       /\ ~Answered(c)
  /\ Answered(c) => answers

(* InStep says this of every client without a duplicate.                   *)
LEMMA InStepAlone == InStep <=> \A c \in Clients : ~doubled[c] => Alone(c)
<1>1. ASSUME NEW c \in Clients
      PROVE  /\ OnTheWay(c) = {} <=> \A d \in network : d.client # c
             /\ Queued(c) = {} <=> \A i \in DOMAIN queue : queue[i].client # c
  BY DEF OnTheWay, Queued
<1>2. ASSUME NEW c \in Clients, NEW d \in OnTheWay(c)
      PROVE  OnTheWay(c) = {d} <=> \A e \in network : e.client = c => e = d
  BY <1>2 DEF OnTheWay
<1>3. ASSUME NEW c \in Clients, NEW i \in Queued(c)
      PROVE  Queued(c) = {i} <=> \A k \in DOMAIN queue : queue[k].client = c => k = i
  BY <1>3 DEF Queued
<1>4. ASSUME NEW c \in Clients
      PROVE  /\ \A d : d \in OnTheWay(c) <=> d \in network /\ d.client = c
             /\ \A i : i \in Queued(c) <=> i \in DOMAIN queue /\ queue[i].client = c
  BY DEF OnTheWay, Queued
<1> QED
  BY <1>1, <1>2, <1>3, <1>4 DEF InStep, Alone
(* No step of anybody brings a client without a duplicate out of step.     *)
LEMMA AloneStep ==
  ASSUME TypeOK, [Next]_vars, NEW x \in Clients, ~doubled[x] => Alone(x), ~doubled'[x]
  PROVE  Alone(x)'
<1> USE DEF Answered
<1>1. ASSUME NEW c \in Clients, SendLine(c) PROVE Alone(x)'
  <2>1. Alone(x)
    BY <1>1 DEF SendLine
  <2>2. \A d \in network' :
          IF d.client = c THEN d = Line(c, TRUE) \/ \E e \in network : e.client = c
          ELSE d \in network
    <3>1. ASSUME NEW d \in network' PROVE d = Line(c, TRUE) \/ \E e \in network : d = Aged(e, c)
      BY <1>1, <3>1 DEF SendLine
    <3>2. \A e \in network : Aged(e, c).client = e.client /\ (e.client # c => Aged(e, c) = e)
      BY Ageing DEF TypeOK
    <3>3. Line(c, TRUE).client = c
      BY Fields
    <3> QED
      BY <3>1, <3>2, <3>3
  <2>3. DOMAIN queue' = DOMAIN queue
    BY <1>1 DEF SendLine
  <2>4. \A i \in DOMAIN queue : queue'[i].client = queue[i].client /\ (queue[i].client # c => queue'[i] = queue[i])
    <3>1. \A i \in DOMAIN queue : queue[i] \in Datagrams /\ queue'[i] = Aged(queue[i], c)
      BY <1>1 DEF SendLine, TypeOK
    <3> QED
      BY <3>1, Ageing
  <2>5. CASE x = c
    <3>1. /\ \A d \in network : d.client # c
          /\ \A i \in DOMAIN queue : queue[i].client # c
          /\ ~Answered(c)
      BY <1>1, <2>1, <2>5 DEF SendLine, Alone
    <3>2. \A d \in network' : d.client = c => d = Line(c, TRUE)
      BY <2>2, <3>1
    <3>3. ~Answered(c)'
      BY <1>1, <3>1 DEF SendLine
    <3>4. cpc'[c] # "prompt"
      BY <1>1 DEF SendLine, TypeOK
    <3>5. Line(c, TRUE).current
      BY Fields
    <3>6. \A i \in DOMAIN queue' : queue'[i].client # c
      BY <2>3, <2>4, <3>1
    <3> HIDE DEF Answered
    <3>7. Alone(c)'
      BY <3>2, <3>3, <3>4, <3>5, <3>6 DEF Alone
    <3> QED
      BY <2>5, <3>7
  <2>6. CASE x # c
    <3>1. cpc'[x] = cpc[x] /\ (Answered(x)' <=> Answered(x)) /\ (Answered(x) => (answers' <=> answers))
      BY <1>1, <2>6 DEF SendLine, TypeOK
    <3>2. \A d \in network' : d.client = x => d \in network
      BY <2>2, <2>6
    <3> QED
      BY <2>1, <2>3, <2>4, <2>6, <3>1, <3>2 DEF Alone
  <2> QED
    BY <2>5, <2>6
<1>2. ASSUME NEW c \in Clients, Quit(c) PROVE Alone(x)'
  BY <1>2 DEF Quit, Alone, TypeOK
<1>3. CASE Hear
  <2>1. Alone(x)
    BY <1>3 DEF Hear
  <2>2. /\ 1 \in DOMAIN queue /\ Head(queue) = queue[1]
        /\ \A i \in DOMAIN queue' : i + 1 \in DOMAIN queue /\ i + 1 # 1 /\ queue'[i] = queue[i + 1]
        /\ \A i, k \in DOMAIN queue' : i + 1 = k + 1 => i = k
    BY <1>3 DEF Hear, TypeOK
  <2>3. lpc = "recv" /\ lpc' = "reply" /\ their_addr' = queue[1].client /\ answers' = queue[1].current
    BY <1>3, <2>2 DEF Hear
  <2>4. cpc' = cpc /\ network' = network
    BY <1>3 DEF Hear
  <2> QED
    BY <2>1, <2>2, <2>3, <2>4 DEF Alone
<1>4. CASE Reply
  <2>1. Alone(x)
    BY <1>4 DEF Reply
  <2>2. their_addr \in Clients /\ answers \in BOOLEAN
    BY <1>4 DEF Reply, TypeOK
  <2> QED
    BY <1>4, <2>1, <2>2, Fields DEF Reply, Alone
<1>5. CASE Stop
  BY <1>5 DEF Stop, Alone
<1>6. ASSUME NEW d \in network, Receive(d.client, d) PROVE Alone(x)'
  <2>1. ~doubled[x]
    BY <1>6 DEF Receive, Leaves, Taken, Copied, TypeOK
  <2>2. d.client = x => network' = network \ {d}
    BY <1>6 DEF Receive, Leaves, Taken, Copied, TypeOK
  <2>3. network' \subseteq network /\ queue' = queue /\ lpc' = lpc /\ their_addr' = their_addr /\ answers' = answers
    BY <1>6 DEF Receive, Leaves, Taken, Copied
  <2>4. d.client # x => cpc'[x] = cpc[x]
    BY <1>6 DEF Receive, TypeOK
  <2> QED
    BY <2>1, <2>2, <2>3, <2>4 DEF Alone
<1>7. ASSUME NEW d \in network, Arrive(d) PROVE Alone(x)'
  <2>1. ~doubled[x]
    BY <1>7 DEF Arrive, Leaves, Taken, Copied, TypeOK
  <2>2. d.client = x => network' = network \ {d}
    BY <1>7 DEF Arrive, Leaves, Taken, Copied, TypeOK
  <2>3. network' \subseteq network /\ cpc' = cpc /\ lpc' = lpc /\ their_addr' = their_addr /\ answers' = answers
    BY <1>7 DEF Arrive, Leaves, Taken, Copied
  <2>4. CASE queue' = queue
    BY <2>1, <2>2, <2>3, <2>4 DEF Alone
  <2>5. CASE queue' = Append(queue, d)
    <3>1. /\ DOMAIN queue \subseteq DOMAIN queue'
          /\ \A i \in DOMAIN queue : queue'[i] = queue[i]
          /\ \A i \in DOMAIN queue' \ DOMAIN queue : i = Len(queue) + 1 /\ queue'[i] = d
      BY <2>5 DEF TypeOK
    <3> QED
      BY <2>1, <2>2, <2>3, <3>1 DEF Alone
  <2> QED
    BY <1>7, <2>4, <2>5 DEF Arrive
<1>8. ASSUME NEW d \in network, Lose(d) PROVE Alone(x)'
  BY <1>8 DEF Lose, Taken, Alone
<1>9. CASE UNCHANGED vars
  BY <1>9 DEF Alone
<1> QED
  BY <1>1, <1>2, <1>3, <1>4, <1>5, <1>6, <1>7, <1>8, <1>9 DEF Next, Listen

(* A client none of whose datagrams was duplicated is in step with the     *)
(* listener, whatever the network drops or reorders and whoever stops: the *)
(* answer it takes is the one to its last line.                            *)
THEOREM AnswersInStep == Spec => []InStep
<1>1. Init => InStep
  BY DEF Init, InStep, OnTheWay, Queued, Answered
<1>2. TypeOK /\ InStep /\ [Next]_vars => InStep'
  <2>1. (InStep <=> \A c \in Clients : ~doubled[c] => Alone(c))'
    BY InStepAlone, PTL
  <2> SUFFICES ASSUME TypeOK, InStep, [Next]_vars,
                      NEW x \in Clients, ~doubled'[x]
               PROVE  Alone(x)'
    BY <2>1
  <2> QED
    BY InStepAlone, AloneStep
<1> QED
  BY <1>1, <1>2, TypeCorrect, PTL DEF Spec
-----------------------------------------------------------------------------
(* Where the current line of a client, or the answer to it, may be.        *)
Reason(c) ==
  \/ \E d \in network : d.client = c /\ d.current
  \/ \E i \in DOMAIN queue : queue[i].client = c /\ queue[i].current
  \/ Answered(c) /\ answers
  \/ lost[c] \/ lpc = "gone"

LEMMA ReasonStep ==
  ASSUME TypeOK, [Next]_vars, NEW x \in Clients,
         cpc[x] = "recv" => Reason(x), cpc'[x] = "recv"
  PROVE  Reason(x)'
<1> USE DEF Answered
<1>1. ASSUME NEW c \in Clients, SendLine(c) PROVE Reason(x)'
  <2>1. CASE x = c
    <3>1. Line(c, TRUE) \in network'
      BY <1>1 DEF SendLine
    <3> QED
      BY <2>1, <3>1, Fields DEF Reason
  <2>2. CASE x # c
    <3>1. \A d \in network : d.client = x => d \in network'
      <4>1. \A d \in network : d.client = x => d = Aged(d, c)
        BY <2>2, Ageing DEF TypeOK
      <4> QED
        BY <1>1, <4>1 DEF SendLine
    <3>2. DOMAIN queue' = DOMAIN queue /\ \A i \in DOMAIN queue : queue[i].client = x => queue'[i] = queue[i]
      <4>1. \A i \in DOMAIN queue : queue[i] \in Datagrams /\ queue'[i] = Aged(queue[i], c)
        BY <1>1 DEF SendLine, TypeOK
      <4> QED
        BY <1>1, <2>2, <4>1, Ageing DEF SendLine
    <3>3. cpc'[x] = cpc[x] /\ lost'[x] = lost[x] /\ lpc' = lpc /\ their_addr' = their_addr
      BY <1>1, <2>2 DEF SendLine, TypeOK
    <3>4. Answered(x) /\ answers => answers'
      BY <1>1, <2>2 DEF SendLine
    <3> QED
      BY <3>1, <3>2, <3>3, <3>4 DEF Reason
  <2> QED
    BY <2>1, <2>2
<1>2. ASSUME NEW c \in Clients, Quit(c) PROVE Reason(x)'
  BY <1>2 DEF Quit, Reason, TypeOK
<1>3. CASE Hear
  <2>1. /\ Head(queue) = queue[1]
        /\ \A i \in DOMAIN queue : i # 1 => i - 1 \in DOMAIN queue' /\ queue'[i - 1] = queue[i]
    BY <1>3 DEF Hear, TypeOK
  <2>2. /\ lpc = "recv" /\ lpc' = "reply"
        /\ their_addr' = queue[1].client /\ answers' = queue[1].current
        /\ cpc' = cpc /\ network' = network /\ lost' = lost
    BY <1>3, <2>1 DEF Hear
  <2>3. CASE \E i \in DOMAIN queue : queue[i].client = x /\ queue[i].current
    BY <2>1, <2>2, <2>3 DEF Reason
  <2>4. CASE ~\E i \in DOMAIN queue : queue[i].client = x /\ queue[i].current
    BY <2>2, <2>4 DEF Reason
  <2> QED
    BY <2>3, <2>4
<1>4. CASE Reply
  <2>1. /\ Answer(their_addr, answers) \in network' /\ network \subseteq network'
        /\ queue' = queue /\ cpc' = cpc /\ lost' = lost /\ lpc = "reply"
    BY <1>4 DEF Reply
  <2>2. Answer(their_addr, answers).client = their_addr /\ Answer(their_addr, answers).current = answers
    BY <2>1, Fields DEF TypeOK
  <2> QED
    BY <2>1, <2>2 DEF Reason
<1>5. CASE Stop
  BY <1>5 DEF Stop, Reason
<1>6. ASSUME NEW d \in network, Receive(d.client, d) PROVE Reason(x)'
  <2>1. d.client # x /\ cpc'[x] = cpc[x]
    BY <1>6 DEF Receive, TypeOK
  <2>2. \A e \in network : e # d => e \in network'
    BY <1>6 DEF Receive, Leaves, Taken, Copied
  <2> QED
    BY <1>6, <2>1, <2>2 DEF Receive, Reason
<1>7. ASSUME NEW d \in network, Arrive(d) PROVE Reason(x)'
  <2>1. \A e \in network : e # d => e \in network'
    BY <1>7 DEF Arrive, Leaves, Taken, Copied
  <2>2. cpc' = cpc /\ lpc' = lpc /\ their_addr' = their_addr /\ answers' = answers
    BY <1>7 DEF Arrive
  <2>3. CASE queue' = Append(queue, d) /\ lost' = lost
    <3>1. /\ DOMAIN queue \subseteq DOMAIN queue'
          /\ \A i \in DOMAIN queue : queue'[i] = queue[i]
          /\ Len(queue) + 1 \in DOMAIN queue' /\ queue'[Len(queue) + 1] = d
      BY <2>3 DEF TypeOK
    <3> QED
      BY <2>1, <2>2, <2>3, <3>1 DEF Reason
  <2>4. CASE queue' = queue /\ Drop(d)
    <3>1. lost'[x] = (lost[x] \/ (d.client = x /\ d.current))
      BY <2>4 DEF Drop, TypeOK
    <3> QED
      BY <2>1, <2>2, <2>4, <3>1 DEF Reason
  <2> QED
    BY <1>7, <2>3, <2>4 DEF Arrive
<1>8. ASSUME NEW d \in network, Lose(d) PROVE Reason(x)'
  <2>1. lost'[x] = (lost[x] \/ (d.client = x /\ d.current))
    BY <1>8 DEF Lose, Drop, TypeOK
  <2> QED
    BY <1>8, <2>1 DEF Lose, Taken, Reason
<1>9. CASE UNCHANGED vars
  BY <1>9 DEF Reason
<1> QED
  BY <1>1, <1>2, <1>3, <1>4, <1>5, <1>6, <1>7, <1>8, <1>9 DEF Next, Listen

(* A client waits without a reason in no run: its current line or the      *)
(* answer to it is on its way, was dropped, or the listener is gone.       *)
THEOREM WaitsWithReason == Spec => []WaitHasAReason
<1>1. WaitHasAReason <=> \A c \in Clients : cpc[c] = "recv" => Reason(c)
  BY DEF WaitHasAReason, Reason, OnTheWay, Queued
<1>2. Init => WaitHasAReason
  BY DEF Init, WaitHasAReason
<1>3. TypeOK /\ WaitHasAReason /\ [Next]_vars => WaitHasAReason'
  <2>1. (WaitHasAReason <=> \A c \in Clients : cpc[c] = "recv" => Reason(c))'
    BY <1>1, PTL
  <2> QED
    BY <1>1, <2>1, ReasonStep
<1> QED
  BY <1>2, <1>3, TypeCorrect, PTL DEF Spec
=============================================================================
