------------------------------ MODULE Pairing ------------------------------
(***************************************************************************)
(* app/app.c, utility/msg/msg.c and the sending halves of tcp_server.c and *)
(* tcp_client.c: how a server and its clients pair.  A frame that arrives  *)
(* goes into the process's message queue; the app thread takes one message *)
(* after the other and answers it.  The queue is the kernel's and outlives *)
(* the process: a run begins with what the last one left in it.            *)
(*                                                                         *)
(* A message is its command, the first byte of its data, which is the      *)
(* descriptor number its sender wrote into the reserved byte, and whether  *)
(* the rest came in at a serial port or is a pairing's address text.       *)
(* A connection's commit thread is taken to work on its own row, as it     *)
(* does unless another client comes before it has read add_position        *)
(* (tcp_server.c:650): which row that is is ServerTable's.  Heartbeats     *)
(* are handled by the commit threads and never queued: they are the        *)
(* subject of ServerTable and TcpClient.  The server runs on x86-64 and    *)
(* the clients on 32-bit ARM, where a message of type 0 cannot be queued.  *)
(*                                                                         *)
(* External parts, as the code uses them: TCP and the descriptors of       *)
(* accept (conn, link, LowestFree), whoever starts and kills the programs, *)
(* and the device at the serial port (Type).                               *)
(*                                                                         *)
(* The definitions named Mutant... are not part of the model: each is the  *)
(* definition that follows it with a mistake in it, and shows which        *)
(* property notices.                                                       *)
(***************************************************************************)
EXTENDS Integers, Sequences, FiniteSets

CONSTANTS
  Clients,
  NoClient,    \* nobody
  CommFd,      \* the number of comm_fd: the same in every client
  FirstFd,     \* the number the server's first accept returns
  NumFds,      \* bound: how many connections the server may hold
  QueueCap,    \* how many messages fit into a queue
  SerialInput, \* the messages that may arrive at a client's serial port
  MaxSerial,   \* bound: how many of them
  MaxRuns,     \* bound: how often clients are started, all together
  MaxCrashes   \* bound: how often a program is killed from outside

ASSUME ClientAssumption == NoClient \notin Clients
ASSUME FdAssumption ==
  CommFd \in 0 .. 255 /\ FirstFd \in Nat \ {0} /\ NumFds \in Nat
ASSUME QueueAssumption == QueueCap \in Nat \ {0}
ASSUME SerialAssumption ==
  SerialInput \subseteq [cmd : 0 .. 255, fd : 0 .. 255, serial : {TRUE}]
ASSUME BoundsAssumption ==
  MaxSerial \in Nat /\ MaxRuns \in Nat /\ MaxCrashes \in Nat

VARIABLES
  up,        \* the server runs
  squeue,    \* its message queue, oldest first
  sapp,      \* the message its app thread works on
  conn,      \* descriptor |-> state of the connection
  peer,      \* descriptor |-> the client at the other end
  toServer,  \* descriptor |-> the frames under way to the server
  mode,      \* client |-> is it off, starting, linked or cut off
  link,      \* client |-> the server's descriptor of its connection, or 0
  hello,     \* client |-> its pairing request is still to be sent
  cqueue, capp, toClient,  \* client |-> the same as for the server
  paired,    \* history: the clients whose LOGIN was answered
  asked, answered,         \* history: pairing requests sent, answers sent
  typed, runs, crashes     \* how many so far

server == <<up, squeue, sapp>>
net == <<conn, peer, toServer, toClient>>
client == <<mode, link, hello, cqueue, capp, paired>>
history == <<asked, answered>>
bounds == <<typed, runs, crashes>>
vars == <<server, net, client, history, bounds>>

\* hip_protocol_cmd_em.
DETECT_REQUEST == 5
USER_LOGIN == 6
KEEP_ALIVE == 7
UART_PASS_THROUGH == 8
WAIT == 9

Cmds == 0 .. 255
Msg == [cmd : Cmds, fd : 0 .. 255, serial : BOOLEAN]
Message(cmd, fd) == [cmd |-> cmd, fd |-> fd, serial |-> FALSE]
None == Message(0, 0)

Fds == FirstFd .. FirstFd + NumFds - 1

TypeOK ==
  /\ up \in BOOLEAN
  /\ squeue \in Seq(Msg) /\ sapp \in Msg
  /\ conn \in [Fds -> {"free", "open", "gone", "reset"}]
  /\ peer \in [Fds -> Clients \cup {NoClient}]
  /\ toServer \in [Fds -> Seq(Msg)]
  /\ mode \in [Clients -> {"off", "start", "linked", "cut"}]
  /\ link \in [Clients -> Fds \cup {0}]
  /\ hello \in [Clients -> BOOLEAN]
  /\ cqueue \in [Clients -> Seq(Msg)] /\ capp \in [Clients -> Msg]
  /\ toClient \in [Clients -> Seq(Msg)]
  /\ paired \in [Clients -> BOOLEAN]
  /\ asked \in Nat /\ answered \in Nat
  /\ typed \in Nat /\ runs \in Nat /\ crashes \in Nat
  /\ Len(squeue) <= QueueCap /\ \A c \in Clients : Len(cqueue[c]) <= QueueCap

Init ==
  /\ up = TRUE /\ squeue = <<>> /\ sapp = None
  /\ conn = [f \in Fds |-> "free"] /\ peer = [f \in Fds |-> NoClient]
  /\ toServer = [f \in Fds |-> <<>>]
  /\ mode = [c \in Clients |-> "off"] /\ link = [c \in Clients |-> 0]
  /\ hello = [c \in Clients |-> FALSE]
  /\ cqueue = [c \in Clients |-> <<>>] /\ capp = [c \in Clients |-> None]
  /\ toClient = [c \in Clients |-> <<>>]
  /\ paired = [c \in Clients |-> FALSE]
  /\ asked = 0 /\ answered = 0
  /\ typed = 0 /\ runs = 0 /\ crashes = 0

-----------------------------------------------------------------------------
(* parse_cmd, and what becomes of the process.                             *)

\* The LED's commands and the serial port's.
IsLed(cmd) == cmd \in 1 .. 4
IsInet(cmd) == cmd \in 5 .. 8
IsUart(cmd) == cmd > 8

\* The process dies, and with it all but its message queue.  What it has sent
\* arrives, or is lost in a reset.
ServerEnds ==
  /\ up' = FALSE
  /\ sapp' = None
  /\ conn' = [f \in Fds |-> "free"] /\ peer' = [f \in Fds |-> NoClient]
  /\ toServer' = [f \in Fds |-> <<>>]
  /\ mode' = [c \in Clients |-> IF mode[c] = "linked" THEN "cut" ELSE mode[c]]
  /\ link' = [c \in Clients |-> 0]
  /\ \/ UNCHANGED toClient
     \/ toClient' = [c \in Clients |-> <<>>]
  /\ UNCHANGED <<hello, capp, paired>>

ClientEnds(c) ==
  /\ mode' = [mode EXCEPT ![c] = "off"]
  /\ link' = [link EXCEPT ![c] = 0]
  /\ hello' = [hello EXCEPT ![c] = FALSE]
  /\ capp' = [capp EXCEPT ![c] = None]
  /\ paired' = [paired EXCEPT ![c] = FALSE]
  /\ toClient' = [toClient EXCEPT ![c] = <<>>]
  /\ conn' = [f \in Fds |-> IF f = link[c] THEN "gone" ELSE conn[f]]

-----------------------------------------------------------------------------
(* The server: the commit threads and the app thread.                      *)

MutantCommitServer(f) ==
  /\ up /\ toServer[f] # <<>>
  /\ squeue' = Append(squeue, Head(toServer[f]))
  /\ toServer' = [toServer EXCEPT ![f] = Tail(@)]
  /\ UNCHANGED <<up, sapp, conn, peer, toClient, client, history, bounds>>

\* hip_parse_s_success_handle_func and msg_send, which waits while the queue
\* is full.  The message type takes in the data's first four bytes, and a
\* negative one is refused: data of a serial message can have such a byte,
\* whatever command carries them, and a text has none.
CommitServer(f) ==
  /\ up /\ toServer[f] # <<>> /\ Len(squeue) < QueueCap
  /\ LET m == Head(toServer[f])
     IN  \/ squeue' = Append(squeue, m)
         \/ m.serial /\ UNCHANGED squeue
  /\ toServer' = [toServer EXCEPT ![f] = Tail(@)]
  /\ UNCHANGED <<up, sapp, conn, peer, toClient, client, history, bounds>>

MutantServerTakes ==
  /\ up /\ sapp = None /\ squeue # <<>>
  /\ sapp' = Head(squeue)
  /\ UNCHANGED <<up, squeue, net, client, history, bounds>>

\* msg_recive: the message is out of the queue before it is worked on.
ServerTakes ==
  /\ up /\ sapp = None /\ squeue # <<>>
  /\ sapp' = Head(squeue)
  /\ squeue' = Tail(squeue)
  /\ UNCHANGED <<up, net, client, history, bounds>>

Reaches(fd, state) == fd \in Fds /\ conn[fd] = state

\* tcp_server_send: the row is looked for by the number in the message.  A
\* first send to a client that is gone provokes a reset, the next one SIGPIPE.
ServerSend(m) ==
  \/ /\ Reaches(m.fd, "open")
     /\ toClient' = [toClient EXCEPT ![peer[m.fd]] = Append(@, m)]
     /\ UNCHANGED <<up, conn, peer, toServer, mode, link, hello, capp, paired>>
     /\ sapp' = None
  \/ /\ Reaches(m.fd, "gone")
     /\ conn' = [conn EXCEPT ![m.fd] = "reset"]
     /\ UNCHANGED <<up, toClient, peer, toServer, mode, link, hello, capp, paired>>
     /\ sapp' = None
  \/ Reaches(m.fd, "reset") /\ ServerEnds
  \/ /\ ~(m.fd \in Fds /\ conn[m.fd] # "free")
     /\ UNCHANGED <<up, net, mode, link, hello, capp, paired>>
     /\ sapp' = None

\* set_tcp_server_cmd: the answer to a command is the command.
Reply(cmd) == cmd

\* app_process.  Every LED or serial command ends in tty_send, and there the
\* process: hup_pack writes through the pointer it has just cleared.
ServerActs ==
  /\ up /\ sapp # None
  /\ IF IsInet(sapp.cmd)
       THEN /\ ServerSend([sapp EXCEPT !.cmd = Reply(sapp.cmd)])
            /\ answered' = answered + (IF Reply(sapp.cmd) = DETECT_REQUEST THEN 1 ELSE 0)
       ELSE ServerEnds /\ UNCHANGED answered
  /\ UNCHANGED <<squeue, cqueue, asked, bounds>>

-----------------------------------------------------------------------------
(* The client: connect, the commit thread and the app thread.              *)

LowestFree(f) == conn[f] = "free" /\ \A g \in Fds : g < f => conn[g] # "free"

\* The first connect of recive_serve_thread_fun; a refused one is exit(-1).
Connect(c) ==
  /\ mode[c] = "start"
  /\ \/ /\ up
        /\ \E f \in Fds :
             /\ LowestFree(f)
             /\ conn' = [conn EXCEPT ![f] = "open"]
             /\ peer' = [peer EXCEPT ![f] = c]
             /\ link' = [link EXCEPT ![c] = f]
        /\ mode' = [mode EXCEPT ![c] = "linked"]
        /\ hello' = [hello EXCEPT ![c] = TRUE]
        /\ UNCHANGED <<toClient, capp, paired>>
     \/ ~up /\ ClientEnds(c) /\ UNCHANGED peer
  /\ UNCHANGED <<server, toServer, cqueue, history, bounds>>

MutantHello(c) ==
  /\ hello[c] /\ mode[c] = "linked"
  /\ hello' = [hello EXCEPT ![c] = FALSE]
  /\ toServer' = [toServer EXCEPT ![link[c]] = Append(@, Message(DETECT_REQUEST, 0))]
  /\ asked' = asked + 1
  /\ UNCHANGED <<server, conn, peer, toClient, mode, link, cqueue, capp, paired,
                 answered, bounds>>

\* The pairing request.
Hello(c) ==
  /\ hello[c] /\ mode[c] = "linked"
  /\ hello' = [hello EXCEPT ![c] = FALSE]
  /\ toServer' = [toServer EXCEPT ![link[c]] =
                    Append(@, Message(DETECT_REQUEST, CommFd))]
  /\ asked' = asked + 1
  /\ UNCHANGED <<server, conn, peer, toClient, mode, link, cqueue, capp, paired,
                 answered, bounds>>

\* retry_connect_server: its pairing request is refused by tcp_client_send.
Reconnect(c) ==
  /\ mode[c] = "cut" /\ up
  /\ \E f \in Fds :
       /\ LowestFree(f)
       /\ conn' = [conn EXCEPT ![f] = "open"]
       /\ peer' = [peer EXCEPT ![f] = c]
       /\ link' = [link EXCEPT ![c] = f]
  /\ mode' = [mode EXCEPT ![c] = "linked"]
  /\ hello' = [hello EXCEPT ![c] = FALSE]
  /\ UNCHANGED <<server, toServer, toClient, cqueue, capp, paired, history, bounds>>

\* hip_parse_c_success_handle_func and msg_send.
CommitClient(c) ==
  /\ mode[c] \in {"linked", "cut"}
  /\ toClient[c] # <<>> /\ Len(cqueue[c]) < QueueCap
  /\ cqueue' = [cqueue EXCEPT ![c] = Append(@, Head(toClient[c]))]
  /\ toClient' = [toClient EXCEPT ![c] = Tail(@)]
  /\ UNCHANGED <<server, conn, peer, toServer, mode, link, hello, capp, paired,
                 history, bounds>>

\* A frame arrives at the serial port (hup_success_handle_func).  A command 0
\* makes a message type 0, which msgsnd refuses.
Type(c, m) ==
  /\ mode[c] # "off" /\ typed < MaxSerial /\ Len(cqueue[c]) < QueueCap
  /\ typed' = typed + 1
  /\ cqueue' = [cqueue EXCEPT ![c] = IF m.cmd = 0 THEN @ ELSE Append(@, m)]
  /\ UNCHANGED <<server, net, mode, link, hello, capp, paired, history, runs, crashes>>

ClientTakes(c) ==
  /\ mode[c] # "off" /\ capp[c] = None /\ cqueue[c] # <<>>
  /\ capp' = [capp EXCEPT ![c] = Head(cqueue[c])]
  /\ cqueue' = [cqueue EXCEPT ![c] = Tail(@)]
  /\ UNCHANGED <<server, net, mode, link, hello, paired, history, bounds>>

MutantAnswer(cmd) == IF cmd = DETECT_REQUEST THEN USER_LOGIN ELSE cmd

\* set_tcp_client_cmd.
Answer(cmd) ==
  CASE cmd = DETECT_REQUEST -> USER_LOGIN
    [] cmd = USER_LOGIN -> WAIT
    [] cmd = KEEP_ALIVE -> WAIT
    [] cmd = UART_PASS_THROUGH -> UART_PASS_THROUGH

Done(c, m) ==
  /\ capp' = [capp EXCEPT ![c] = None]
  /\ paired' = [paired EXCEPT ![c] = @ \/ m.cmd = USER_LOGIN]
  /\ UNCHANGED <<mode, link, hello, toClient, conn>>

Frame(c, m) ==
  toServer' = [f \in Fds |-> IF f = link[c]
                 THEN Append(toServer[f], [m EXCEPT !.cmd = Answer(m.cmd)])
                 ELSE toServer[f]]

MutantClientSends(m) == m.fd = CommFd

\* tcp_client_send: WAIT is never sent, and of the client's descriptors only
\* comm_fd is a socket.
ClientSends(m) == Answer(m.cmd) # WAIT /\ m.fd = CommFd /\ m.fd > 0

\* app_process.  A send before connect is called is SIGPIPE; one while connect
\* waits blocks, and goes out when the client is linked: it is the step from
\* "linked", taken after Connect.  On a socket the server left, the first send is
\* not SIGPIPE.  A message that is passed through is also for the serial port,
\* which ends the client.
ClientActs(c) ==
  /\ mode[c] # "off" /\ capp[c] # None
  /\ LET m == capp[c]
     IN  \/ /\ ~IsInet(m.cmd)
            /\ ClientEnds(c) /\ UNCHANGED toServer
         \/ /\ IsInet(m.cmd) /\ ~ClientSends(m)
            /\ IF m.cmd = UART_PASS_THROUGH THEN ClientEnds(c) ELSE Done(c, m)
            /\ UNCHANGED toServer
         \/ /\ IsInet(m.cmd) /\ ClientSends(m) /\ mode[c] = "linked"
            /\ IF m.cmd = UART_PASS_THROUGH THEN ClientEnds(c) ELSE Done(c, m)
            /\ Frame(c, m)
         \/ /\ IsInet(m.cmd) /\ ClientSends(m) /\ mode[c] = "start"
            /\ ClientEnds(c) /\ UNCHANGED toServer
         \/ /\ IsInet(m.cmd) /\ ClientSends(m) /\ mode[c] = "cut"
            /\ IF m.cmd = UART_PASS_THROUGH THEN ClientEnds(c)
                                            ELSE Done(c, m) \/ ClientEnds(c)
            /\ UNCHANGED toServer
  /\ UNCHANGED <<server, peer, cqueue, history, bounds>>

-----------------------------------------------------------------------------
(* The programs are started and end.                                       *)

\* msg_init finds the queue of the last run.
Start(c) ==
  /\ mode[c] = "off" /\ runs < MaxRuns
  /\ runs' = runs + 1
  /\ mode' = [mode EXCEPT ![c] = "start"]
  /\ UNCHANGED <<server, net, link, hello, cqueue, capp, paired, history, typed, crashes>>

Quit(c) ==
  /\ mode[c] # "off" /\ crashes < MaxCrashes
  /\ crashes' = crashes + 1
  /\ ClientEnds(c)
  /\ UNCHANGED <<server, peer, toServer, cqueue, history, typed, runs>>

ServerCrash ==
  /\ up /\ crashes < MaxCrashes
  /\ crashes' = crashes + 1
  /\ ServerEnds
  /\ UNCHANGED <<squeue, cqueue, history, typed, runs>>

ServerStart ==
  /\ ~up
  /\ up' = TRUE
  /\ UNCHANGED <<squeue, sapp, net, client, history, bounds>>

\* The managing thread finds that a client is gone.
Drop(f) ==
  /\ up /\ conn[f] \in {"gone", "reset"}
  /\ conn' = [conn EXCEPT ![f] = "free"]
  /\ peer' = [peer EXCEPT ![f] = NoClient]
  /\ toServer' = [toServer EXCEPT ![f] = <<>>]
  /\ UNCHANGED <<server, toClient, client, history, bounds>>

-----------------------------------------------------------------------------
ServerApp == ServerTakes \/ ServerActs
ClientApp(c) == ClientTakes(c) \/ ClientActs(c)

Next ==
  \/ ServerApp \/ ServerCrash \/ ServerStart
  \/ \E f \in Fds : CommitServer(f) \/ Drop(f)
  \/ \E c \in Clients :
       \/ Start(c) \/ Connect(c) \/ Hello(c) \/ CommitClient(c) \/ ClientApp(c)
       \/ Reconnect(c) \/ Quit(c)
       \/ \E m \in SerialInput : Type(c, m)

Spec == Init /\ [][Next]_vars

\* The threads of a running program run; nobody has to start a program, to
\* connect again, or to type.
FairSpec ==
  /\ Spec
  /\ WF_vars(ServerApp) /\ \A f \in Fds : WF_vars(CommitServer(f))
  /\ \A c \in Clients : /\ WF_vars(Hello(c)) /\ WF_vars(CommitClient(c))
                        /\ WF_vars(ClientApp(c))

-----------------------------------------------------------------------------
(* Properties.                                                             *)

\* What reaches the server's app thread is an inet command: main does not
\* initialise the server's LED and serial parts, and any other command would
\* use them (and end in tty_send).
ServerPartsUnused == sapp = None \/ IsInet(sapp.cmd)

\* The pairing requests in a queue, and those that are under way to the server.
Requests(queue) == {i \in DOMAIN queue : queue[i].cmd = DETECT_REQUEST}
UnderWay(links, fds) == UNION {{f} \X Requests(links[f]) : f \in fds}

\* A pairing request is answered at most once, though requests wait in a queue
\* that outlives the server and an answer may be lost in a crash: the answers
\* sent and the requests still to be answered never exceed the requests sent.
AnsweredAtMostOnce ==
  answered + Cardinality(Requests(squeue)) + Cardinality(Requests(<<sapp>>))
    + Cardinality(UnderWay(toServer, Fds)) <= asked

\* A client whose own descriptor has the number that the server knows it by
\* gets paired, whatever the other clients send and however short the queues
\* are, unless its connection ends first.
Pairs ==
  \A c \in Clients :
    (hello[c] /\ link[c] = CommFd) ~> (paired[c] \/ link[c] # CommFd)

\* Requests and answers die out: the two ends do not answer each other's
\* answers for ever.
ExchangeEnds ==
  <>[](/\ up => /\ squeue = <<>> /\ sapp = None
                /\ \A f \in Fds : toServer[f] = <<>>
       /\ \A c \in Clients : mode[c] \in {"linked", "cut"} =>
            cqueue[c] = <<>> /\ capp[c] = None /\ toClient[c] = <<>>)
=============================================================================
