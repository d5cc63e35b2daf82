------------------------------ MODULE UdpChat ------------------------------
(***************************************************************************)
(* The datagram programs of APP4: linux/UDP/macClientUDP.c sends a line    *)
(* and waits for an answer with no timeout, linux/UDP/macListenerUDP.c     *)
(* answers to the address of the datagram it received last.  The text of a *)
(* datagram is left out; what is kept is whose it is and whether it        *)
(* belongs to the last line of that client ("current").                    *)
(*                                                                         *)
(* The network may lose, reorder and duplicate datagrams; the socket of    *)
(* the listener keeps them in their order of arrival and drops what does   *)
(* not fit.  A datagram for a socket that is closed is lost, and nobody is *)
(* told.                                                                   *)
(***************************************************************************)
EXTENDS Integers, Sequences

CONSTANTS
  Clients,   (* processes that run macClientUDP.c                          *)
  QueueMax   (* datagrams the socket of the listener holds                 *)

ASSUME UdpChatAssumption == QueueMax \in Nat \ {0}

Unset == "unset"
ASSUME UnsetAssumption == Unset \notin Clients

VARIABLES
  cpc,         (* each client: "prompt", "recv" or "ended"                 *)
  lpc,         (* the listener: "recv", "reply" or "gone"                  *)
  their_addr,  (* where the listener answers to                            *)
  answers,     (* the datagram it answers is the current one of its client *)
  network,     (* the datagrams on their way                               *)
  queue,       (* the datagrams in the socket of the listener              *)
  lost,        (* history: a current datagram of the client was dropped    *)
  doubled      (* history: a datagram of the client was duplicated         *)

listener == <<lpc, their_addr, answers, queue>>
history == <<lost, doubled>>
vars == <<cpc, listener, network, history>>

Line(c, current) == [to |-> "listener", client |-> c, current |-> current]
Answer(c, current) == [to |-> "client", client |-> c, current |-> current]
Datagrams == [to : {"listener", "client"}, client : Clients, current : BOOLEAN]

(* A program whose address or socket cannot be had ends before its loop.   *)
Init ==
  /\ cpc \in [Clients -> {"prompt", "ended"}]
  /\ lpc \in {"recv", "gone"}
  /\ their_addr = Unset
  /\ answers = FALSE
  /\ network = {}
  /\ queue = << >>
  /\ lost = [c \in Clients |-> FALSE]
  /\ doubled = [c \in Clients |-> FALSE]

-----------------------------------------------------------------------------
(* The clients. *)

(* What c sent or was sent before belongs to an older line from now on.    *)
Aged(d, c) == IF d.client = c THEN [d EXCEPT !.current = FALSE] ELSE d

(* Mutation of SendLine: the client does not wait for the answer.          *)
SendWithoutWaiting(c) ==
  /\ cpc[c] = "prompt"
  /\ network' = {Aged(d, c) : d \in network} \cup {Line(c, TRUE)}
  /\ queue' = [i \in DOMAIN queue |-> Aged(queue[i], c)]
  /\ answers' = (answers /\ their_addr # c)
  /\ lost' = [lost EXCEPT ![c] = FALSE]
  /\ UNCHANGED <<cpc, lpc, their_addr, doubled>>

(* Any line but "quit".                                                    *)
SendLine(c) ==
  /\ cpc[c] = "prompt"
  /\ cpc' = [cpc EXCEPT ![c] = "recv"]
  /\ network' = {Aged(d, c) : d \in network} \cup {Line(c, TRUE)}
  /\ queue' = [i \in DOMAIN queue |-> Aged(queue[i], c)]
  /\ answers' = (answers /\ their_addr # c)
  /\ lost' = [lost EXCEPT ![c] = FALSE]
  /\ UNCHANGED <<lpc, their_addr, doubled>>

(* The network keeps a copy of datagram d, or not.  One copy for each      *)
(* client is enough to take it out of step with the listener for ever.     *)
Copied(d) == doubled' = [doubled EXCEPT ![d.client] = TRUE] /\ UNCHANGED network
Taken(d) == network' = network \ {d} /\ UNCHANGED doubled
Leaves(d) == Taken(d) \/ (~doubled[d.client] /\ Copied(d))

(* The client takes whatever answer comes; "quit" ends it.                 *)
Receive(c, d) ==
  /\ cpc[c] = "recv"
  /\ d \in network /\ d.to = "client" /\ d.client = c
  /\ Leaves(d)
  /\ cpc' \in {[cpc EXCEPT ![c] = "prompt"], [cpc EXCEPT ![c] = "ended"]}
  /\ UNCHANGED <<listener, lost>>

(* "quit" is typed, a call fails, or the user interrupts the client.       *)
Quit(c) ==
  /\ cpc[c] # "ended"
  /\ cpc' = [cpc EXCEPT ![c] = "ended"]
  /\ UNCHANGED <<listener, network, history>>

-----------------------------------------------------------------------------
(* The listener. *)

(* Mutation of Hear: the address is not asked for.                         *)
HearNoAddress ==
  /\ lpc = "recv"
  /\ queue # << >>
  /\ queue' = Tail(queue)
  /\ answers' = Head(queue).current
  /\ lpc' = "reply"
  /\ UNCHANGED <<cpc, their_addr, network, history>>

(* Mutation of Hear: the address of the first datagram is kept.            *)
HearKeepsAddress ==
  /\ lpc = "recv"
  /\ queue # << >>
  /\ queue' = Tail(queue)
  /\ their_addr' = IF their_addr = Unset THEN Head(queue).client ELSE their_addr
  /\ answers' = Head(queue).current
  /\ lpc' = "reply"
  /\ UNCHANGED <<cpc, network, history>>

Hear ==
  /\ lpc = "recv"
  /\ queue # << >>
  /\ queue' = Tail(queue)
  /\ their_addr' = Head(queue).client
  /\ answers' = Head(queue).current
  /\ lpc' = "reply"
  /\ UNCHANGED <<cpc, network, history>>

(* Mutation of Reply: an empty line is not sent.                           *)
ReplyEmptyNotSent ==
  /\ lpc = "reply"
  /\ network' \in {network, network \cup {Answer(their_addr, answers)}}
  /\ answers' = FALSE
  /\ lpc' = "recv"
  /\ UNCHANGED <<cpc, their_addr, queue, history>>

Reply ==
  /\ lpc = "reply"
  /\ network' = network \cup {Answer(their_addr, answers)}
  /\ answers' = FALSE
  /\ lpc' = "recv"
  /\ UNCHANGED <<cpc, their_addr, queue, history>>

(* A call fails, or the operator interrupts the listener.                  *)
Stop ==
  /\ lpc # "gone"
  /\ lpc' = "gone"
  /\ queue' = << >>
  /\ UNCHANGED <<cpc, their_addr, answers, network, history>>

-----------------------------------------------------------------------------
(* The network. *)

Drop(d) == lost' = [lost EXCEPT ![d.client] = @ \/ d.current]

(* A datagram reaches the socket of the listener, or finds it full.        *)
Arrive(d) ==
  /\ d \in network /\ d.to = "listener"
  /\ IF lpc # "gone" /\ Len(queue) < QueueMax
       THEN Leaves(d) /\ queue' = Append(queue, d) /\ UNCHANGED lost
       ELSE Taken(d) /\ Drop(d) /\ UNCHANGED queue
  /\ UNCHANGED <<cpc, lpc, their_addr, answers>>

Lose(d) ==
  /\ d \in network
  /\ Taken(d)
  /\ Drop(d)
  /\ UNCHANGED <<cpc, listener>>

-----------------------------------------------------------------------------
Listen == Hear \/ Reply

Next ==
  \/ Listen \/ Stop
  \/ \E c \in Clients : SendLine(c) \/ Quit(c)
  \/ \E d \in network : Receive(d.client, d) \/ Arrive(d) \/ Lose(d)

(* The programs run, the operator of the listener answers some time, and   *)
(* a datagram arrives or is lost some time.  No user needs to type.        *)
Fairness ==
  /\ WF_vars(Listen)
  /\ \A c \in Clients : WF_vars(\E d \in network : Receive(c, d))
  /\ \A d \in Datagrams : WF_vars(Arrive(d))

Spec == Init /\ [][Next]_vars /\ Fairness

-----------------------------------------------------------------------------
(* Properties. *)

(* Whoever the listener answers has an address, its socket holds lines     *)
(* only, and not more of them than fit.                                    *)
TypeOK ==
  /\ cpc \in [Clients -> {"prompt", "recv", "ended"}]
  /\ lpc \in {"recv", "reply", "gone"}
  /\ their_addr \in Clients \cup {Unset}
  /\ lpc = "reply" => their_addr \in Clients
  /\ answers \in BOOLEAN
  /\ network \subseteq Datagrams
  /\ queue \in Seq({d \in Datagrams : d.to = "listener"})
  /\ Len(queue) <= QueueMax
  /\ lost \in [Clients -> BOOLEAN]
  /\ doubled \in [Clients -> BOOLEAN]

(* The places where something of client c is.                              *)
OnTheWay(c) == {d \in network : d.client = c}
Queued(c) == {i \in DOMAIN queue : queue[i].client = c}
Answered(c) == lpc = "reply" /\ their_addr = c

(* As long as no datagram of a client was duplicated, client and listener  *)
(* are in step: there is one datagram or answer of the client at most, it  *)
(* belongs to its last line, and there is none when the client prompts.    *)
(* So the answer a client takes is the one to its line, also when several  *)
(* clients send at a time.                                                 *)
InStep ==
  \A c \in Clients : ~doubled[c] =>
    /\ cpc[c] = "prompt" => OnTheWay(c) = {} /\ Queued(c) = {} /\ ~Answered(c)
    /\ \A d \in OnTheWay(c) : d.current /\ OnTheWay(c) = {d} /\ Queued(c) = {} /\ ~Answered(c)
    /\ \A i \in Queued(c) : queue[i].current /\ Queued(c) = {i} /\ ~Answered(c)
    /\ Answered(c) => answers

(* A client waits for an answer only while its line or the answer to it is *)
(* somewhere, or one of them was dropped, or the listener is gone: the     *)
(* programs themselves lose nothing.                                       *)
WaitHasAReason ==
  \A c \in Clients : cpc[c] = "recv" =>
    \/ \E d \in OnTheWay(c) : d.current
    \/ \E i \in Queued(c) : queue[i].current
    \/ Answered(c) /\ answers
    \/ lost[c] \/ lpc = "gone"

(* With no timeout a client gets on only if nothing is dropped; then it    *)
(* does, however many other clients the listener has to answer.            *)
LineIsAnswered ==
  \A c \in Clients : cpc[c] = "recv" ~> cpc[c] # "recv" \/ lost[c] \/ lpc = "gone"
=============================================================================
