------------------------------ MODULE TcpChat ------------------------------
(***************************************************************************)
(* The TCP conversations of APP4: linux/TCP/macServeurTCP.c and            *)
(* windows/winServerTCP.c serve one client at a time, the clients          *)
(* macClientTCP.c and winClientTCP.c send a line and wait for an answer.   *)
(* Any of the clients talks to any of the servers.  A stream is the number *)
(* of its unread bytes: what is typed plays no part in what the programs   *)
(* do, only how much of it.  A recv() returns any part of what is there.   *)
(*                                                                         *)
(* The kernel's part, modelled from what the programs use of it: closing a *)
(* socket with unread bytes, or writing to a socket whose peer closed it,  *)
(* leads to a reset, which the other side sees as an error of its next     *)
(* call ("pending", then "reported"); a write after that kills a program   *)
(* that does not handle SIGPIPE.                                           *)
(***************************************************************************)
EXTENDS Integers, Sequences, SequencesExt

CONSTANTS
  MacClients,      (* processes that run macClientTCP.c                    *)
  WinClients,      (* processes that run winClientTCP.c                    *)
  ServerPrograms,  (* the servers considered, from {"mac", "win"}          *)
  LineMax,         (* the longest line of a client, and what macClientTCP  *)
                   (* asks recv() for: TAILLEMAX - 1                       *)
  ReplyMax,        (* the longest answer of a server: BUFFER_LENGTH - 1    *)
  StreamMax        (* the bytes a stream holds before send() blocks        *)

Clients == MacClients \cup WinClients

ASSUME TcpChatAssumption ==
  /\ MacClients \cap WinClients = {}
  /\ ServerPrograms \subseteq {"mac", "win"}
  /\ LineMax \in Nat \ {0}
  /\ ReplyMax \in Nat \ {0}
  /\ StreamMax \in Nat \ {0}

NoClient == "none"
ASSUME NoClientAssumption == NoClient \notin Clients

VARIABLES
  program,    (* which server runs                                         *)
  spc,        (* the server: "setup", "accept", "recv", "reply", "gone",   *)
              (* or "deaf": it accepts on a socket that does not listen    *)
  current,    (* the client being served                                   *)
  queue,      (* connections the server has not accepted, oldest first     *)
  cpc,        (* each client: "off", "prompt", "recv" or "ended"           *)
  asked,      (* the length of the client's last line                      *)
  toServer,   (* bytes sent by the client and not read                     *)
  toClient,   (* bytes sent by the server and not read                     *)
  hungUp,     (* the server closed the connection                          *)
  serverErr,  (* "none", "pending" or "reported", as the server sees it    *)
  clientErr   (* the same, as the client sees it                           *)

server == <<program, spc, current, queue>>
streams == <<toServer, toClient>>
errors == <<hungUp, serverErr, clientErr>>
vars == <<server, cpc, asked, streams, errors>>

Init ==
  /\ program \in ServerPrograms
  /\ spc = "setup"
  /\ current = NoClient
  /\ queue = << >>
  /\ cpc = [c \in Clients |-> "off"]
  /\ asked = [c \in Clients |-> 0]
  /\ toServer = [c \in Clients |-> 0]
  /\ toClient = [c \in Clients |-> 0]
  /\ hungUp = [c \in Clients |-> FALSE]
  /\ serverErr = [c \in Clients |-> "none"]
  /\ clientErr = [c \in Clients |-> "none"]

Least(a, b) == IF a < b THEN a ELSE b

-----------------------------------------------------------------------------
(* The kernel. *)

(* The end of a client's process, or its close().                          *)
End(c) ==
  /\ cpc' = [cpc EXCEPT ![c] = "ended"]
  /\ serverErr' =
       IF toClient[c] > 0 /\ ~hungUp[c] /\ serverErr[c] = "none"
       THEN [serverErr EXCEPT ![c] = "pending"] ELSE serverErr

(* The server closes the connections of the clients in S.                  *)
HangUp(S) ==
  /\ hungUp' = [c \in Clients |-> hungUp[c] \/ c \in S]
  /\ clientErr' = [c \in Clients |->
       IF c \in S /\ toServer[c] > 0 /\ clientErr[c] = "none" THEN "pending" ELSE clientErr[c]]

(* exit() in the server, or its death by SIGPIPE.                          *)
Die ==
  /\ spc' = "gone"
  /\ current' = NoClient
  /\ queue' = << >>
  /\ HangUp(ToSet(queue) \cup ({current} \ {NoClient}))

-----------------------------------------------------------------------------
(* How the programs begin.  A socket, a port or an address may not be had. *)

MacSetUp ==
  /\ program = "mac"
  /\ spc = "setup"
  /\ spc' \in {"accept", "gone"}
  /\ UNCHANGED <<program, current, queue, cpc, asked, streams, errors>>

(* The result of listen() is not looked at.  Where it fails, every accept()*)
(* fails, too, and the server goes round its loop for ever.                *)
WinSetUp ==
  /\ program = "win"
  /\ spc = "setup"
  /\ spc' \in {"accept", "deaf", "gone"}
  /\ UNCHANGED <<program, current, queue, cpc, asked, streams, errors>>

Connected(c) ==
  /\ spc \in {"accept", "recv", "reply"}
  /\ cpc' = [cpc EXCEPT ![c] = "prompt"]
  /\ queue' = Append(queue, c)

NotConnected(c) == cpc' = [cpc EXCEPT ![c] = "ended"] /\ UNCHANGED queue

(* One of the addresses of the machine answers, or none of them.           *)
MacConnect(c) ==
  /\ c \in MacClients
  /\ cpc[c] = "off"
  /\ Connected(c) \/ NotConnected(c)
  /\ UNCHANGED <<program, spc, current, asked, streams, errors>>

(* The one address of the machine the user names is tried.                 *)
WinConnect(c) ==
  /\ c \in WinClients
  /\ cpc[c] = "off"
  /\ Connected(c) \/ NotConnected(c)
  /\ UNCHANGED <<program, spc, current, asked, streams, errors>>

-----------------------------------------------------------------------------
(* The clients. *)

(* The user types a line.  fgets() returns at least the end of line,       *)
(* gets_s() may return an empty string: then recv() is asked for no byte   *)
(* and returns 0 at once, which ends winClientTCP.                         *)
SendLine(c, n) ==
  /\ cpc[c] = "prompt"
  /\ n > 0 /\ clientErr[c] = "none"
  /\ IF hungUp[c]
       THEN clientErr' = [clientErr EXCEPT ![c] = "pending"] /\ UNCHANGED toServer
       ELSE /\ toServer[c] + n <= StreamMax
            /\ toServer' = [toServer EXCEPT ![c] = @ + n]
            /\ UNCHANGED clientErr
  /\ cpc' = [cpc EXCEPT ![c] = "recv"]
  /\ asked' = [asked EXCEPT ![c] = n]
  /\ UNCHANGED <<server, toClient, hungUp, serverErr>>

(* Mutation of SendFails: the failure is ignored every time.               *)
SendFailsIgnored(c) ==
  /\ cpc[c] = "prompt"
  /\ clientErr[c] # "none"
  /\ cpc' = [cpc EXCEPT ![c] = "recv"]
  /\ clientErr' = [clientErr EXCEPT ![c] = "reported"]
  /\ UNCHANGED <<server, asked, streams, hungUp, serverErr>>

(* send() fails on a reset connection: winClientTCP exits, macClientTCP    *)
(* goes on once if the error was not reported yet, or is killed.           *)
SendFails(c) ==
  /\ cpc[c] = "prompt"
  /\ clientErr[c] # "none"
  /\ \/ /\ End(c)
        /\ UNCHANGED clientErr
     \/ /\ c \in MacClients /\ clientErr[c] = "pending"
        /\ cpc' = [cpc EXCEPT ![c] = "recv"]
        /\ clientErr' = [clientErr EXCEPT ![c] = "reported"]
        /\ UNCHANGED serverErr
  /\ UNCHANGED <<server, asked, streams, hungUp>>

(* "quit", the empty line of winClientTCP, or an interrupt of the user.    *)
Quit(c) ==
  /\ cpc[c] \in {"prompt", "recv"}
  /\ End(c)
  /\ UNCHANGED <<server, asked, streams, hungUp, clientErr>>

(* Mutation of Receive: as many bytes are taken as were asked for.         *)
ReceiveAll(c) ==
  /\ cpc[c] = "recv"
  /\ toClient[c] > 0
  /\ toClient' = [toClient EXCEPT ![c] = @ - (IF c \in MacClients THEN LineMax ELSE asked[c])]
  /\ cpc' = [cpc EXCEPT ![c] = "prompt"]
  /\ UNCHANGED <<server, asked, toServer, errors>>

(* macClientTCP asks for LineMax bytes, winClientTCP for as many as it     *)
(* sent.                                                                   *)
Receive(c) ==
  /\ cpc[c] = "recv"
  /\ \E n \in 1 .. Least(toClient[c], IF c \in MacClients THEN LineMax ELSE asked[c]) :
       toClient' = [toClient EXCEPT ![c] = @ - n]
  /\ cpc' = [cpc EXCEPT ![c] = "prompt"]
  /\ UNCHANGED <<server, asked, toServer, errors>>

(* recv() returns 0: winClientTCP ends, macClientTCP prompts again.        *)
ReceiveEnd(c) ==
  /\ cpc[c] = "recv"
  /\ toClient[c] = 0
  /\ hungUp[c] \/ clientErr[c] = "reported"
  /\ cpc' = [cpc EXCEPT ![c] = IF c \in MacClients THEN "prompt" ELSE "ended"]
  /\ UNCHANGED <<server, asked, streams, errors>>

(* recv() returns -1: macClientTCP exits.  winClientTCP stores a NUL at    *)
(* text[-1]; whatever that byte is, it prompts again or is aborted.        *)
ReceiveError(c) ==
  /\ cpc[c] = "recv"
  /\ clientErr[c] = "pending"
  /\ clientErr' = [clientErr EXCEPT ![c] = "reported"]
  /\ \/ End(c)
     \/ c \in WinClients /\ cpc' = [cpc EXCEPT ![c] = "prompt"] /\ UNCHANGED serverErr
  /\ UNCHANGED <<server, asked, streams, hungUp>>

-----------------------------------------------------------------------------
(* The servers. *)

(* A connection is taken off the queue, also when its client left it.      *)
Accept ==
  /\ spc = "accept"
  /\ queue # << >>
  /\ current' = Head(queue)
  /\ queue' = Tail(queue)
  /\ spc' = "recv"
  /\ UNCHANGED <<program, cpc, asked, streams, errors>>

(* accept() may fail at any time, with or without a connection to take:    *)
(* macServeurTCP exits, winServerTCP goes round its loop (no step).        *)
AcceptFails ==
  /\ spc = "accept"
  /\ program = "mac"
  /\ Die
  /\ UNCHANGED <<program, cpc, asked, streams, serverErr>>

(* The capacity of the buffer: macServeurTCP leaves the last byte of it    *)
(* for the NUL, winServerTCP does not.                                     *)
HearMax == IF program = "mac" THEN ReplyMax ELSE ReplyMax + 1

(* Mutation of Hear: the message is not answered.                          *)
HearSilently ==
  /\ spc = "recv"
  /\ \E n \in 1 .. Least(toServer[current], HearMax) :
       toServer' = [toServer EXCEPT ![current] = @ - n]
  /\ UNCHANGED <<server, cpc, asked, toClient, errors>>

(* A message came; the operator is asked for an answer.  Where the message *)
(* fills winServerTCP's buffer, the NUL is stored behind the buffer; what  *)
(* that byte belongs to is not modelled.                                   *)
Hear ==
  /\ spc = "recv"
  /\ \E n \in 1 .. Least(toServer[current], HearMax) :
       toServer' = [toServer EXCEPT ![current] = @ - n]
  /\ spc' = "reply"
  /\ UNCHANGED <<program, current, queue, cpc, asked, toClient, errors>>

(* The connection is closed and the next one accepted.                     *)
NextConnection ==
  /\ spc' = "accept"
  /\ current' = NoClient
  /\ HangUp({current})
  /\ UNCHANGED queue

(* Mutation of HearEnd: the end of a connection is taken for an error.     *)
HearEndExits ==
  /\ spc = "recv"
  /\ toServer[current] = 0
  /\ cpc[current] = "ended" \/ serverErr[current] = "reported"
  /\ Die
  /\ UNCHANGED <<program, cpc, asked, streams, serverErr>>

(* Mutation of HearEnd: the loop of the connection is not left, like the   *)
(* one of macClientTCP.                                                    *)
HearEndGoesOn ==
  /\ spc = "recv"
  /\ toServer[current] = 0
  /\ cpc[current] = "ended" \/ serverErr[current] = "reported"
  /\ UNCHANGED vars

HearEnd ==
  /\ spc = "recv"
  /\ toServer[current] = 0
  /\ cpc[current] = "ended" \/ serverErr[current] = "reported"
  /\ NextConnection
  /\ UNCHANGED <<program, cpc, asked, streams, serverErr>>

(* recv() returns -1: macServeurTCP exits, winServerTCP leaves the loop of *)
(* this connection.                                                        *)
HearError ==
  /\ spc = "recv"
  /\ serverErr[current] = "pending"
  /\ serverErr' = [serverErr EXCEPT ![current] = "reported"]
  /\ \/ program = "mac" /\ Die
     \/ program = "win" /\ NextConnection
  /\ UNCHANGED <<program, cpc, asked, streams>>

Reply(n) ==
  /\ spc = "reply"
  /\ serverErr[current] = "none"
  /\ IF cpc[current] = "ended"
       THEN serverErr' = [serverErr EXCEPT ![current] = "pending"] /\ UNCHANGED toClient
       ELSE /\ toClient[current] + n <= StreamMax
            /\ toClient' = [toClient EXCEPT ![current] = @ + n]
            /\ UNCHANGED serverErr
  /\ spc' = "recv"
  /\ UNCHANGED <<program, current, queue, cpc, asked, toServer, hungUp, clientErr>>

(* send() fails: winServerTCP exits, macServeurTCP goes on once if the     *)
(* error was not reported yet, or is killed.                               *)
ReplyFails ==
  /\ spc = "reply"
  /\ serverErr[current] # "none"
  /\ \/ /\ Die
        /\ UNCHANGED serverErr
     \/ /\ program = "mac" /\ serverErr[current] = "pending"
        /\ spc' = "recv"
        /\ serverErr' = [serverErr EXCEPT ![current] = "reported"]
        /\ UNCHANGED <<current, queue, hungUp, clientErr>>
  /\ UNCHANGED <<program, cpc, asked, streams>>

(* An empty answer ends the connection in winServerTCP.                    *)
ReplyNothing ==
  /\ spc = "reply"
  /\ program = "win"
  /\ NextConnection
  /\ UNCHANGED <<program, cpc, asked, streams, serverErr>>

-----------------------------------------------------------------------------
Listen(c) == Receive(c) \/ ReceiveEnd(c) \/ ReceiveError(c)

(* A user at the prompt of a client. *)
Type(c) == (\E n \in 1 .. LineMax : SendLine(c, n)) \/ SendFails(c)

Serve ==
  \/ Accept \/ Hear \/ HearEnd \/ HearError
  \/ (\E n \in 1 .. ReplyMax : Reply(n)) \/ ReplyFails \/ ReplyNothing

Next ==
  \/ MacSetUp \/ WinSetUp \/ AcceptFails \/ Serve
  \/ \E c \in Clients : MacConnect(c) \/ WinConnect(c) \/ Type(c) \/ Quit(c) \/ Listen(c)

(* The programs run, accept() does not fail for ever, and whoever is asked *)
(* for a line gives one some time; nobody needs to start a program or to   *)
(* leave.                                                                  *)
Fairness ==
  /\ WF_vars(Serve)
  /\ \A c \in Clients : WF_vars(Listen(c)) /\ WF_vars(Type(c))

Spec == Init /\ [][Next]_vars /\ Fairness

-----------------------------------------------------------------------------
(* Properties. *)

(* A stream never holds more than it can, the server serves a client       *)
(* exactly between accept and the next one, nobody waits in the queue of a *)
(* server that does not listen.                                            *)
TypeOK ==
  /\ program \in ServerPrograms
  /\ spc \in {"setup", "accept", "deaf", "recv", "reply", "gone"}
  /\ current \in Clients \cup {NoClient}
  /\ current = NoClient <=> spc \in {"setup", "accept", "deaf", "gone"}
  /\ queue \in Seq(Clients)
  /\ spc \in {"setup", "deaf", "gone"} => queue = << >>
  /\ cpc \in [Clients -> {"off", "prompt", "recv", "ended"}]
  /\ asked \in [Clients -> 0 .. LineMax]
  /\ toServer \in [Clients -> 0 .. StreamMax]
  /\ toClient \in [Clients -> 0 .. StreamMax]
  /\ hungUp \in [Clients -> BOOLEAN]
  /\ serverErr \in [Clients -> {"none", "pending", "reported"}]
  /\ clientErr \in [Clients -> {"none", "pending", "reported"}]

(* Client and server never wait for each other: when a client waits for    *)
(* bytes on an intact connection and none are there, the server has bytes  *)
(* of it to read or is about to answer it, however the messages and the    *)
(* answers were cut into pieces.                                           *)
NoCrossWait ==
  \A c \in Clients :
    cpc[c] = "recv" /\ toClient[c] = 0 /\ ~hungUp[c] /\ clientErr[c] = "none" =>
      toServer[c] > 0 \/ (current = c /\ spc = "reply")

(* While it serves a client a server stops only over a reset of that very  *)
(* connection, never because the client said goodbye or because of what    *)
(* another client does; between two clients only macServeurTCP stops, over *)
(* an accept() that fails.                                                 *)
StopsOnReset ==
  [][spc' = "gone" /\ spc # "gone" =>
       \/ spc = "setup"
       \/ spc = "accept" /\ program = "mac"
       \/ /\ current \in Clients
          /\ serverErr[current] # "none" /\ cpc[current] = "ended"]_vars

(* A client whose connection is being served gets bytes, learns of the end *)
(* of the connection, or is interrupted by its user.                       *)
ServedClientIsAnswered ==
  \A c \in Clients : current = c /\ cpc[c] = "recv" ~> cpc[c] # "recv"

(* A client notices that the server closed the connection or is gone, also *)
(* macClientTCP, which takes a recv() of 0 bytes for an answer.            *)
HangUpIsNoticed ==
  \A c \in Clients : hungUp[c] ~> cpc[c] = "ended"

(* One client is served at a time, but the queue moves: whoever waits in   *)
(* it is accepted, or told that the server is gone, if the other clients   *)
(* leave some time, in whatever state they leave their connections.        *)
QueueMoves ==
  \A c \in Clients :
    (\A d \in Clients \ {c} : cpc[d] # "off" ~> cpc[d] = "ended") =>
      (c \in ToSet(queue) ~> c \notin ToSet(queue))
=============================================================================
