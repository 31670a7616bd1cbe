--------------------------- MODULE Pairing_proofs ---------------------------
(***************************************************************************)
(* What the server's app thread gets, for any number of clients,           *)
(* descriptors, restarts and crashes, and whatever arrives at the clients' *)
(* serial ports.  A client's app thread gets any command (from its serial  *)
(* port), but all it sends is answers, and they and the pairing request    *)
(* are inet commands; queues and connections only hand them on.            *)
(*                                                                         *)
(* The second half counts: every pairing request that was ever sent is     *)
(* under way on a connection, in the server's queue, in its app thread's   *)
(* hands, answered or lost, and no step makes a second one of it.          *)
(***************************************************************************)
EXTENDS Pairing, SequenceTheorems, FiniteSetTheorems, TLAPS

\* What a client sends, and what the server's queue and app thread then hold.
ClientCmds == {DETECT_REQUEST, USER_LOGIN, UART_PASS_THROUGH}
ClientMsg == [cmd : ClientCmds, fd : 0 .. 255, serial : BOOLEAN]

FromClients ==
  /\ squeue \in Seq(ClientMsg)
  /\ sapp \in ClientMsg \cup {None}
  /\ toServer \in [Fds -> Seq(ClientMsg)]

ServerInv ==
  /\ up \in BOOLEAN
  /\ Len(squeue) <= QueueCap
  /\ conn \in [Fds -> {"free", "open", "gone", "reset"}]
  /\ peer \in [Fds -> Clients \cup {NoClient}]

ClientInv ==
  /\ mode \in [Clients -> {"off", "start", "linked", "cut"}]
  /\ link \in [Clients -> Fds \cup {0}]
  /\ hello \in [Clients -> BOOLEAN]
  /\ cqueue \in [Clients -> Seq(Msg)]
  /\ \A c \in Clients : Len(cqueue[c]) <= QueueCap
  /\ capp \in [Clients -> Msg]
  /\ toClient \in [Clients -> Seq(Msg)]
  /\ paired \in [Clients -> BOOLEAN]

CountInv ==
  /\ asked \in Nat /\ answered \in Nat
  /\ typed \in Nat /\ runs \in Nat /\ crashes \in Nat

IndInv == FromClients /\ ServerInv /\ ClientInv /\ CountInv

USE DEF Cmds

\* A client's messages are messages.
LEMMA ClientMsgIsMsg == ClientMsg \subseteq Msg /\ Seq(ClientMsg) \subseteq Seq(Msg)
<1>1. ClientMsg \subseteq Msg
  BY DEF ClientMsg, ClientCmds, Msg, DETECT_REQUEST, USER_LOGIN, UART_PASS_THROUGH
<1> QED BY <1>1

LEMMA NoneIsMsg == None \in Msg /\ None.cmd = 0
BY DEF None, Message, Msg

\* Appending to a queue and taking its head away.
LEMMA AppendTyped ==
  ASSUME NEW T, NEW q \in Seq(T), NEW m \in T
  PROVE  Append(q, m) \in Seq(T) /\ Len(Append(q, m)) = Len(q) + 1
BY AppendProperties

LEMMA TailTyped ==
  ASSUME NEW T, NEW q \in Seq(T), q # <<>>
  PROVE  Head(q) \in T /\ Tail(q) \in Seq(T) /\ Len(Tail(q)) = Len(q) - 1
BY HeadTailProperties

\* What set_tcp_client_cmd makes of an inet command and tcp_client_send lets
\* pass is again one of the client's commands.
LEMMA AnswerIsClientCmd ==
  ASSUME NEW m \in Msg, IsInet(m.cmd), ClientSends(m)
  PROVE  [m EXCEPT !.cmd = Answer(m.cmd)] \in ClientMsg
<1>1. m.cmd \in {5, 6, 7, 8}
  BY DEF Msg, IsInet
<1>2. Answer(m.cmd) \in ClientCmds
  BY <1>1 DEF ClientSends, Answer, ClientCmds, DETECT_REQUEST, USER_LOGIN,
              KEEP_ALIVE, UART_PASS_THROUGH, WAIT
<1> QED BY <1>2 DEF Msg, ClientMsg

\* The proof of the invariant: the initial states, what the parts of the actions
\* do, and then every step, for one part of the invariant after the other.
LEMMA InitInv == Init => IndInv
<1> SUFFICES ASSUME Init PROVE IndInv OBVIOUS
<1> USE DEF Init
<1>1. FromClients BY EmptySeq DEF FromClients
<1>2. ServerInv BY QueueAssumption DEF ServerInv
<1>3. ClientInv BY QueueAssumption, EmptySeq, NoneIsMsg DEF ClientInv
<1>4. CountInv BY DEF CountInv
<1> QED BY <1>1, <1>2, <1>3, <1>4 DEF IndInv

-----------------------------------------------------------------------------
(* The end of a process.                                                   *)

LEMMA ServerEndsTyped ==
  ASSUME IndInv, ServerEnds
  PROVE  /\ sapp' \in ClientMsg \cup {None}
         /\ toServer' \in [Fds -> Seq(ClientMsg)]
         /\ up' \in BOOLEAN
         /\ conn' \in [Fds -> {"free", "open", "gone", "reset"}]
         /\ peer' \in [Fds -> Clients \cup {NoClient}]
         /\ mode' \in [Clients -> {"off", "start", "linked", "cut"}]
         /\ link' \in [Clients -> Fds \cup {0}]
         /\ hello' \in [Clients -> BOOLEAN]
         /\ capp' \in [Clients -> Msg]
         /\ toClient' \in [Clients -> Seq(Msg)]
         /\ paired' \in [Clients -> BOOLEAN]
<1> USE DEF IndInv, ServerEnds
<1>1. sapp' \in ClientMsg \cup {None} /\ up' \in BOOLEAN
  OBVIOUS
<1>2. toServer' \in [Fds -> Seq(ClientMsg)]
  BY EmptySeq
<1>3. /\ conn' \in [Fds -> {"free", "open", "gone", "reset"}]
      /\ peer' \in [Fds -> Clients \cup {NoClient}]
  OBVIOUS
<1>4. mode' \in [Clients -> {"off", "start", "linked", "cut"}]
  BY DEF ClientInv
<1>5. link' \in [Clients -> Fds \cup {0}]
  OBVIOUS
<1>6. toClient' \in [Clients -> Seq(Msg)]
  BY EmptySeq DEF ClientInv
<1>7. /\ hello' \in [Clients -> BOOLEAN]
      /\ capp' \in [Clients -> Msg]
      /\ paired' \in [Clients -> BOOLEAN]
  BY DEF ClientInv
<1> QED BY <1>1, <1>2, <1>3, <1>4, <1>5, <1>6, <1>7

LEMMA ClientEndsTyped ==
  ASSUME IndInv, NEW c \in Clients, ClientEnds(c)
  PROVE  /\ conn' \in [Fds -> {"free", "open", "gone", "reset"}]
         /\ mode' \in [Clients -> {"off", "start", "linked", "cut"}]
         /\ link' \in [Clients -> Fds \cup {0}]
         /\ hello' \in [Clients -> BOOLEAN]
         /\ capp' \in [Clients -> Msg]
         /\ toClient' \in [Clients -> Seq(Msg)]
         /\ paired' \in [Clients -> BOOLEAN]
<1> USE DEF IndInv, ClientEnds
<1>1. conn' \in [Fds -> {"free", "open", "gone", "reset"}]
  BY DEF ServerInv
<1>2. mode' \in [Clients -> {"off", "start", "linked", "cut"}]
  BY DEF ClientInv
<1>3. link' \in [Clients -> Fds \cup {0}]
  BY DEF ClientInv
<1>4. hello' \in [Clients -> BOOLEAN] /\ paired' \in [Clients -> BOOLEAN]
  BY DEF ClientInv
<1>5. capp' \in [Clients -> Msg]
  BY NoneIsMsg DEF ClientInv
<1>6. toClient' \in [Clients -> Seq(Msg)]
  BY EmptySeq DEF ClientInv
<1> QED BY <1>1, <1>2, <1>3, <1>4, <1>5, <1>6

LEMMA DoneTyped ==
  ASSUME IndInv, NEW c \in Clients, NEW m \in Msg, Done(c, m)
  PROVE  /\ UNCHANGED <<mode, link, hello, toClient, conn>>
         /\ capp' \in [Clients -> Msg]
         /\ paired' \in [Clients -> BOOLEAN]
<1> USE DEF IndInv, ClientInv, Done
<1>1. capp' \in [Clients -> Msg]
  BY NoneIsMsg
<1>2. paired' \in [Clients -> BOOLEAN]
  OBVIOUS
<1> QED BY <1>1, <1>2

-----------------------------------------------------------------------------
(* The steps.                                                              *)

USE DEF server, net, client, history, bounds

LEMMA StepFromClients ==
  ASSUME IndInv, [Next]_vars
  PROVE  FromClients'
<1> USE DEF FromClients
<1>0. FromClients BY DEF IndInv
<1>1. ASSUME NEW f \in Fds, CommitServer(f) PROVE FromClients'
  <2> DEFINE m == Head(toServer[f])
  <2>1. toServer[f] \in Seq(ClientMsg) /\ toServer[f] # <<>>
    BY <1>0, <1>1 DEF CommitServer
  <2>2. m \in ClientMsg /\ Tail(toServer[f]) \in Seq(ClientMsg)
    BY <2>1, TailTyped
  <2>3. toServer' = [toServer EXCEPT ![f] = Tail(@)]
    BY <1>1 DEF CommitServer
  <2>4. toServer' \in [Fds -> Seq(ClientMsg)]
    BY <1>0, <2>2, <2>3
  <2>5. squeue' = Append(squeue, m) \/ squeue' = squeue
    BY <1>1 DEF CommitServer
  <2>6. squeue' \in Seq(ClientMsg)
    BY <1>0, <2>2, <2>5, AppendTyped
  <2> QED BY <1>0, <1>1, <2>4, <2>6 DEF CommitServer
<1>2. ASSUME ServerTakes PROVE FromClients'
  <2>1. Head(squeue) \in ClientMsg /\ Tail(squeue) \in Seq(ClientMsg)
    BY <1>0, <1>2, TailTyped DEF ServerTakes
  <2> QED BY <1>0, <1>2, <2>1 DEF ServerTakes
<1>3. ASSUME ServerActs PROVE FromClients'
  <2>1. squeue' = squeue
    BY <1>3 DEF ServerActs
  <2>2. CASE ServerEnds
    BY <1>0, <2>1, <2>2, ServerEndsTyped
  <2>3. CASE ServerSend([sapp EXCEPT !.cmd = Reply(sapp.cmd)])
    <3>1. CASE ServerEnds BY <2>2, <3>1
    <3>2. CASE ~ServerEnds
      BY <1>0, <2>1, <2>3, <3>2 DEF ServerSend, Reaches
    <3> QED BY <3>1, <3>2
  <2> QED BY <1>3, <2>2, <2>3 DEF ServerActs
<1>4. ASSUME NEW c \in Clients, Hello(c) PROVE FromClients'
  <2>1. Message(DETECT_REQUEST, CommFd) \in ClientMsg
    BY FdAssumption DEF Message, ClientMsg, ClientCmds
  <2>2. toServer' = [toServer EXCEPT ![link[c]] =
                       Append(@, Message(DETECT_REQUEST, CommFd))]
    BY <1>4 DEF Hello
  <2>3. ASSUME link[c] \in Fds
        PROVE  Append(toServer[link[c]], Message(DETECT_REQUEST, CommFd)) \in Seq(ClientMsg)
    BY <1>0, <2>1, <2>3, AppendTyped
  <2>4. toServer' \in [Fds -> Seq(ClientMsg)]
    BY <1>0, <2>2, <2>3
  <2> QED BY <1>0, <1>4, <2>4 DEF Hello
<1>5. ASSUME NEW c \in Clients, ClientActs(c) PROVE FromClients'
  <2> DEFINE m == capp[c]
  <2>1. m \in Msg
    BY DEF IndInv, ClientInv
  <2>2. squeue' = squeue /\ sapp' = sapp
    BY <1>5 DEF ClientActs
  <2>3. CASE toServer' = toServer
    BY <1>0, <2>2, <2>3
  <2>4. CASE IsInet(m.cmd) /\ ClientSends(m) /\ Frame(c, m)
    <3>1. [m EXCEPT !.cmd = Answer(m.cmd)] \in ClientMsg
      BY <2>1, <2>4, AnswerIsClientCmd
    <3>2. \A f \in Fds :
            Append(toServer[f], [m EXCEPT !.cmd = Answer(m.cmd)]) \in Seq(ClientMsg)
      BY <1>0, <3>1, AppendTyped
    <3>3. toServer' \in [Fds -> Seq(ClientMsg)]
      BY <1>0, <2>4, <3>2 DEF Frame
    <3> QED BY <1>0, <2>2, <3>3
  <2> QED BY <1>5, <2>3, <2>4 DEF ClientActs
<1>6. ASSUME ServerCrash PROVE FromClients'
  <2>1. ServerEnds /\ squeue' = squeue
    BY <1>6 DEF ServerCrash
  <2> QED BY <1>0, <2>1, ServerEndsTyped
<1>7. ASSUME NEW f \in Fds, Drop(f) PROVE FromClients'
  <2>1. toServer' \in [Fds -> Seq(ClientMsg)]
    BY <1>0, <1>7, EmptySeq DEF Drop
  <2> QED BY <1>0, <1>7, <2>1 DEF Drop
<1>8. ASSUME UNCHANGED <<squeue, sapp, toServer>> PROVE FromClients'
  BY <1>0, <1>8
<1>9. ASSUME NEW c \in Clients,
             \/ Start(c) \/ Connect(c) \/ CommitClient(c) \/ ClientTakes(c)
             \/ Reconnect(c) \/ Quit(c) \/ \E m \in SerialInput : Type(c, m)
      PROVE  FromClients'
  BY <1>8, <1>9 DEF Start, Connect, CommitClient, ClientTakes, Reconnect, Quit, Type
<1>10. ASSUME ServerStart \/ UNCHANGED vars PROVE FromClients'
  BY <1>8, <1>10 DEF ServerStart, vars
<1> QED BY <1>1, <1>2, <1>3, <1>4, <1>5, <1>6, <1>7, <1>9, <1>10
        DEF Next, ServerApp, ClientApp

LEMMA StepCountInv ==
  ASSUME IndInv, [Next]_vars
  PROVE  CountInv'
<1> USE DEF CountInv
<1>0. CountInv BY DEF IndInv
<1>1. CASE ServerActs BY <1>0, <1>1 DEF ServerActs
<1>2. ASSUME NEW c \in Clients, Hello(c) PROVE CountInv'
  BY <1>0, <1>2 DEF Hello
<1>3. ASSUME NEW c \in Clients, NEW m \in SerialInput, Type(c, m) PROVE CountInv'
  BY <1>0, <1>3 DEF Type
<1>4. ASSUME NEW c \in Clients, Start(c) \/ Quit(c) PROVE CountInv'
  BY <1>0, <1>4 DEF Start, Quit
<1>5. CASE ServerCrash BY <1>0, <1>5 DEF ServerCrash
<1>6. ASSUME UNCHANGED <<history, bounds>> PROVE CountInv'
  BY <1>0, <1>6
<1>7. ASSUME NEW c \in Clients,
             \/ Connect(c) \/ CommitClient(c) \/ ClientTakes(c) \/ ClientActs(c)
             \/ Reconnect(c)
      PROVE  CountInv'
  BY <1>6, <1>7 DEF Connect, CommitClient, ClientTakes, ClientActs, Reconnect
<1>8. ASSUME \/ ServerTakes \/ ServerStart \/ UNCHANGED vars
             \/ \E f \in Fds : CommitServer(f) \/ Drop(f)
      PROVE  CountInv'
  BY <1>6, <1>8 DEF ServerTakes, ServerStart, CommitServer, Drop, vars
<1> QED BY <1>1, <1>2, <1>3, <1>4, <1>5, <1>7, <1>8 DEF Next, ServerApp, ClientApp

LEMMA StepServerInv ==
  ASSUME IndInv, [Next]_vars
  PROVE  ServerInv'
<1> USE DEF ServerInv
<1>0. ServerInv BY DEF IndInv
<1>1. ASSUME NEW f \in Fds, CommitServer(f) PROVE ServerInv'
  <2>1. toServer[f] \in Seq(ClientMsg) /\ toServer[f] # <<>> /\ squeue \in Seq(ClientMsg)
    BY <1>1 DEF CommitServer, IndInv, FromClients
  <2>2. Len(Append(squeue, Head(toServer[f]))) = Len(squeue) + 1
    BY <2>1, TailTyped, AppendTyped
  <2>3. Len(squeue) \in Nat
    BY <2>1, LenProperties
  <2>4. Len(squeue') <= QueueCap
    BY <1>0, <1>1, <2>2, <2>3, QueueAssumption DEF CommitServer
  <2> QED BY <1>0, <1>1, <2>4 DEF CommitServer
<1>2. ASSUME ServerTakes PROVE ServerInv'
  <2>1. squeue \in Seq(ClientMsg) /\ squeue # <<>>
    BY <1>2 DEF ServerTakes, IndInv, FromClients
  <2>2. Len(squeue') = Len(squeue) - 1 /\ Len(squeue) \in Nat
    BY <1>2, <2>1, TailTyped, LenProperties DEF ServerTakes
  <2>3. Len(squeue') <= QueueCap
    BY <1>0, <2>2, QueueAssumption
  <2> QED BY <1>0, <1>2, <2>3 DEF ServerTakes
<1>3. ASSUME ServerActs PROVE ServerInv'
  <2>1. squeue' = squeue
    BY <1>3 DEF ServerActs
  <2>2. CASE ServerEnds
    BY <1>0, <2>1, <2>2, ServerEndsTyped
  <2>3. CASE ServerSend([sapp EXCEPT !.cmd = Reply(sapp.cmd)]) /\ ~ServerEnds
    BY <1>0, <2>1, <2>3 DEF ServerSend, Reaches
  <2> QED BY <1>3, <2>2, <2>3 DEF ServerActs
<1>4. ASSUME ServerCrash PROVE ServerInv'
  <2>1. ServerEnds /\ squeue' = squeue
    BY <1>4 DEF ServerCrash
  <2> QED BY <1>0, <2>1, ServerEndsTyped
<1>5. CASE ServerStart BY <1>0, <1>5 DEF ServerStart
<1>6. ASSUME NEW f \in Fds, Drop(f) PROVE ServerInv'
  BY <1>0, <1>6 DEF Drop
<1>7. ASSUME NEW c \in Clients, ClientEnds(c), UNCHANGED <<up, squeue, peer>>
      PROVE  ServerInv'
  BY <1>0, <1>7, ClientEndsTyped
<1>8. ASSUME NEW c \in Clients, Connect(c) PROVE ServerInv'
  <2>1. CASE ClientEnds(c) /\ UNCHANGED peer
    BY <1>7, <1>8, <2>1 DEF Connect
  <2>2. CASE \E f \in Fds : /\ conn' = [conn EXCEPT ![f] = "open"]
                           /\ peer' = [peer EXCEPT ![f] = c]
    BY <1>0, <1>8, <2>2 DEF Connect
  <2> QED BY <1>8, <2>1, <2>2 DEF Connect
<1>9. ASSUME NEW c \in Clients, Reconnect(c) PROVE ServerInv'
  BY <1>0, <1>9 DEF Reconnect
<1>10. ASSUME NEW c \in Clients, ClientActs(c) PROVE ServerInv'
  <2>1. UNCHANGED <<up, squeue, peer>>
    BY <1>10 DEF ClientActs
  <2>2. CASE ClientEnds(c)
    BY <1>7, <2>1, <2>2
  <2>3. CASE Done(c, capp[c])
    BY <1>0, <2>1, <2>3 DEF Done
  <2> QED BY <1>10, <2>2, <2>3 DEF ClientActs
<1>11. ASSUME NEW c \in Clients, Quit(c) PROVE ServerInv'
  BY <1>7, <1>11 DEF Quit
<1>12. ASSUME UNCHANGED <<up, squeue, conn, peer>> PROVE ServerInv'
  BY <1>0, <1>12
<1>13. ASSUME NEW c \in Clients,
              \/ Start(c) \/ Hello(c) \/ CommitClient(c) \/ ClientTakes(c)
              \/ \E m \in SerialInput : Type(c, m)
       PROVE  ServerInv'
  BY <1>12, <1>13 DEF Start, Hello, CommitClient, ClientTakes, Type
<1>14. CASE UNCHANGED vars BY <1>12, <1>14 DEF vars
<1> QED BY <1>1, <1>2, <1>3, <1>4, <1>5, <1>6, <1>8, <1>9, <1>10, <1>11, <1>13, <1>14
        DEF Next, ServerApp, ClientApp

LEMMA StepClientInv ==
  ASSUME IndInv, [Next]_vars
  PROVE  ClientInv'
<1> USE DEF ClientInv
<1>0. ClientInv BY DEF IndInv
<1>1. ASSUME ServerEnds, UNCHANGED cqueue PROVE ClientInv'
  BY <1>0, <1>1, ServerEndsTyped
<1>2. ASSUME NEW c \in Clients, ClientEnds(c), UNCHANGED cqueue PROVE ClientInv'
  BY <1>0, <1>2, ClientEndsTyped
<1>3. ASSUME ServerActs PROVE ClientInv'
  <2>1. cqueue' = cqueue
    BY <1>3 DEF ServerActs
  <2>2. CASE ServerEnds
    BY <1>1, <2>1, <2>2
  <2>3. ASSUME NEW fd \in Fds, conn[fd] = "open", IsInet(sapp.cmd), fd = sapp.fd,
               toClient' = [toClient EXCEPT ![peer[fd]] =
                              Append(@, [sapp EXCEPT !.cmd = Reply(sapp.cmd)])],
               UNCHANGED <<mode, link, hello, capp, paired>>
        PROVE  ClientInv'
    <3>1. sapp \in Msg
      BY ClientMsgIsMsg, NoneIsMsg DEF IndInv, FromClients
    <3>2. [sapp EXCEPT !.cmd = Reply(sapp.cmd)] \in Msg
      BY <2>3, <3>1 DEF Msg, Reply
    <3>3. ASSUME peer[fd] \in Clients
          PROVE  Append(toClient[peer[fd]], [sapp EXCEPT !.cmd = Reply(sapp.cmd)]) \in Seq(Msg)
      BY <1>0, <3>2, <3>3, AppendTyped
    <3>4. toClient' \in [Clients -> Seq(Msg)]
      BY <1>0, <2>3, <3>3
    <3> QED BY <1>0, <2>1, <2>3, <3>4
  <2>4. CASE UNCHANGED <<toClient, mode, link, hello, capp, paired>>
    BY <1>0, <2>1, <2>4
  <2>5. CASE IsInet(sapp.cmd) /\ ~ServerEnds
              /\ ServerSend([sapp EXCEPT !.cmd = Reply(sapp.cmd)])
    <3> DEFINE r == [sapp EXCEPT !.cmd = Reply(sapp.cmd)]
    <3>1. sapp \in Msg
      BY ClientMsgIsMsg, NoneIsMsg DEF IndInv, FromClients
    <3>2. r.fd = sapp.fd
      BY <3>1 DEF Msg
    <3> QED BY <2>3, <2>4, <2>5, <3>2 DEF ServerSend, Reaches
  <2> QED BY <1>3, <2>2, <2>5 DEF ServerActs
<1>4. CASE ServerCrash BY <1>1, <1>4 DEF ServerCrash
<1>5. ASSUME NEW c \in Clients, Connect(c) PROVE ClientInv'
  <2>1. CASE ClientEnds(c)
    BY <1>2, <1>5, <2>1 DEF Connect
  <2>2. CASE /\ \E f \in Fds : link' = [link EXCEPT ![c] = f]
             /\ mode' = [mode EXCEPT ![c] = "linked"]
             /\ hello' = [hello EXCEPT ![c] = TRUE]
             /\ UNCHANGED <<toClient, capp, paired>>
    BY <1>0, <1>5, <2>2 DEF Connect
  <2> QED BY <1>5, <2>1, <2>2 DEF Connect
<1>6. ASSUME NEW c \in Clients, Hello(c) PROVE ClientInv'
  BY <1>0, <1>6 DEF Hello
<1>7. ASSUME NEW c \in Clients, Reconnect(c) PROVE ClientInv'
  BY <1>0, <1>7 DEF Reconnect
<1>8. ASSUME NEW c \in Clients, CommitClient(c) PROVE ClientInv'
  <2>1. toClient[c] \in Seq(Msg) /\ toClient[c] # <<>> /\ cqueue[c] \in Seq(Msg)
    BY <1>0, <1>8 DEF CommitClient
  <2>2. Head(toClient[c]) \in Msg /\ Tail(toClient[c]) \in Seq(Msg)
    BY <2>1, TailTyped
  <2> DEFINE q == Append(cqueue[c], Head(toClient[c]))
  <2>3. q \in Seq(Msg) /\ Len(q) = Len(cqueue[c]) + 1 /\ Len(cqueue[c]) \in Nat
    BY <2>1, <2>2, AppendTyped, LenProperties
  <2>4. cqueue' = [cqueue EXCEPT ![c] = q] /\ Len(q) <= QueueCap
    BY <1>8, <2>3, QueueAssumption DEF CommitClient
  <2> HIDE DEF q
  <2>5. cqueue' \in [Clients -> Seq(Msg)] /\ \A d \in Clients : Len(cqueue'[d]) <= QueueCap
    BY <1>0, <2>3, <2>4
  <2>6. toClient' \in [Clients -> Seq(Msg)]
    BY <1>0, <1>8, <2>2 DEF CommitClient
  <2> QED BY <1>0, <1>8, <2>5, <2>6 DEF CommitClient
<1>9. ASSUME NEW c \in Clients, NEW m \in SerialInput, Type(c, m) PROVE ClientInv'
  <2>1. m \in Msg
    BY SerialAssumption DEF Msg
  <2> DEFINE q == IF m.cmd = 0 THEN cqueue[c] ELSE Append(cqueue[c], m)
  <2>2. /\ Append(cqueue[c], m) \in Seq(Msg)
        /\ Len(Append(cqueue[c], m)) = Len(cqueue[c]) + 1
        /\ Len(cqueue[c]) \in Nat
    BY <1>0, <2>1, AppendTyped, LenProperties
  <2>3. Len(cqueue[c]) < QueueCap /\ cqueue' = [cqueue EXCEPT ![c] = q]
    BY <1>9 DEF Type
  <2>4. q \in Seq(Msg) /\ Len(q) <= QueueCap
    BY <1>0, <2>2, <2>3, QueueAssumption
  <2> HIDE DEF q
  <2>5. cqueue' \in [Clients -> Seq(Msg)] /\ \A d \in Clients : Len(cqueue'[d]) <= QueueCap
    BY <1>0, <2>3, <2>4
  <2> QED BY <1>0, <1>9, <2>5 DEF Type
<1>10. ASSUME NEW c \in Clients, ClientTakes(c) PROVE ClientInv'
  <2>1. cqueue[c] \in Seq(Msg) /\ cqueue[c] # <<>>
    BY <1>0, <1>10 DEF ClientTakes
  <2> DEFINE q == Tail(cqueue[c])
  <2>2. Head(cqueue[c]) \in Msg /\ q \in Seq(Msg) /\ Len(q) = Len(cqueue[c]) - 1
    BY <2>1, TailTyped
  <2>3. Len(cqueue[c]) \in Nat /\ Len(q) <= QueueCap
    BY <1>0, <2>1, <2>2, LenProperties, QueueAssumption
  <2>4. cqueue' = [cqueue EXCEPT ![c] = q] /\ capp' = [capp EXCEPT ![c] = Head(cqueue[c])]
    BY <1>10 DEF ClientTakes
  <2> HIDE DEF q
  <2>5. cqueue' \in [Clients -> Seq(Msg)] /\ \A d \in Clients : Len(cqueue'[d]) <= QueueCap
    BY <1>0, <2>2, <2>3, <2>4
  <2>6. capp' \in [Clients -> Msg]
    BY <1>0, <2>2, <2>4
  <2> QED BY <1>0, <1>10, <2>5, <2>6 DEF ClientTakes
<1>11. ASSUME NEW c \in Clients, ClientActs(c) PROVE ClientInv'
  <2>1. cqueue' = cqueue /\ capp[c] \in Msg
    BY <1>0, <1>11 DEF ClientActs
  <2>2. CASE ClientEnds(c)
    BY <1>2, <2>1, <2>2
  <2>3. CASE Done(c, capp[c])
    BY <1>0, <2>1, <2>3, DoneTyped
  <2> QED BY <1>11, <2>2, <2>3 DEF ClientActs
<1>12. ASSUME NEW c \in Clients, Start(c) PROVE ClientInv'
  BY <1>0, <1>12 DEF Start
<1>13. ASSUME NEW c \in Clients, Quit(c) PROVE ClientInv'
  BY <1>2, <1>13 DEF Quit
<1>14. ASSUME UNCHANGED <<client, toClient>> PROVE ClientInv'
  BY <1>0, <1>14
<1>15. ASSUME \/ ServerTakes \/ ServerStart \/ UNCHANGED vars
              \/ \E f \in Fds : CommitServer(f) \/ Drop(f)
       PROVE  ClientInv'
  BY <1>14, <1>15 DEF ServerTakes, ServerStart, CommitServer, Drop, vars
<1> QED BY <1>3, <1>4, <1>5, <1>6, <1>7, <1>8, <1>9, <1>10, <1>11, <1>12, <1>13, <1>15
        DEF Next, ServerApp, ClientApp

-----------------------------------------------------------------------------
\* The inductive invariant: what the queues and connections hold is typed, and
\* what goes to the server is what a client sends.
THEOREM Invariant == Spec => []IndInv
<1>1. IndInv /\ [Next]_vars => IndInv'
  BY StepFromClients, StepServerInv, StepClientInv, StepCountInv DEF IndInv
<1> QED BY <1>1, InitInv, PTL DEF Spec

\* The variables of the server, the clients and the connections keep their
\* types, and no queue ever holds more than it has room for.
THEOREM TypeCorrect == Spec => []TypeOK
<1>1. IndInv => TypeOK
  <2>1. ASSUME FromClients
        PROVE  /\ squeue \in Seq(Msg) /\ sapp \in Msg
               /\ toServer \in [Fds -> Seq(Msg)]
    BY <2>1, ClientMsgIsMsg, NoneIsMsg DEF FromClients
  <2> QED BY <2>1 DEF IndInv, ServerInv, ClientInv, CountInv, TypeOK
<1> QED BY <1>1, Invariant, PTL

\* The server's app thread never gets a command for the LED, the serial port
\* or the system: main has not initialised what it would use for the first two.
THEOREM ServerGetsInetCommands == Spec => []ServerPartsUnused
<1>1. IndInv => ServerPartsUnused
  BY DEF IndInv, FromClients, ClientMsg, ClientCmds, ServerPartsUnused, IsInet,
         DETECT_REQUEST, USER_LOGIN, UART_PASS_THROUGH
<1> QED BY <1>1, Invariant, PTL
-----------------------------------------------------------------------------
(* Counting the pairing requests.                                          *)

\* One message more or less at the end or the head of a queue is one request
\* more or less, if it is one.
IsRequest(m) == IF m.cmd = DETECT_REQUEST THEN 1 ELSE 0

LEMMA RequestsFinite ==
  ASSUME NEW T, NEW q \in Seq(T)
  PROVE  IsFiniteSet(Requests(q)) /\ Cardinality(Requests(q)) \in Nat
<1>1. DOMAIN q = 1 .. Len(q) /\ Len(q) \in Int
  BY LenProperties
<1>2. IsFiniteSet(1 .. Len(q)) /\ Requests(q) \subseteq 1 .. Len(q)
  BY <1>1, FS_Interval DEF Requests
<1> QED BY <1>2, FS_Subset, FS_CardinalityType

LEMMA RequestsOfNone ==
  /\ Requests(<<>>) = {}
  /\ Cardinality({}) = 0 /\ IsFiniteSet({})
BY FS_EmptySet DEF Requests

LEMMA RequestsAppend ==
  ASSUME NEW T, NEW q \in Seq(T), NEW m \in T
  PROVE  Cardinality(Requests(Append(q, m))) = Cardinality(Requests(q)) + IsRequest(m)
<1> DEFINE n == Len(q) + 1
<1>1. /\ DOMAIN q = 1 .. Len(q) /\ Len(q) \in Nat
      /\ DOMAIN Append(q, m) = 1 .. n
      /\ \A i \in 1 .. Len(q) : Append(q, m)[i] = q[i]
      /\ Append(q, m)[n] = m
  BY LenProperties, AppendProperties
<1>2. Requests(Append(q, m)) =
        IF m.cmd = DETECT_REQUEST THEN Requests(q) \cup {n} ELSE Requests(q)
  BY <1>1 DEF Requests
<1>3. n \notin Requests(q)
  BY <1>1 DEF Requests
<1>4. Cardinality(Requests(q) \cup {n}) = Cardinality(Requests(q)) + 1
  BY <1>3, RequestsFinite, FS_AddElement
<1> QED BY <1>2, <1>4, RequestsFinite DEF IsRequest

LEMMA RequestsTail ==
  ASSUME NEW T, NEW q \in Seq(T), q # <<>>
  PROVE  Cardinality(Requests(q)) =
           Cardinality(Requests(Tail(q))) + IsRequest(Head(q))
<1> DEFINE R == Requests(q) \ {1}
           t == Tail(q)
           back == [i \in Requests(t) |-> i + 1]
<1>1. /\ DOMAIN q = 1 .. Len(q) /\ Len(q) \in Nat \ {0}
      /\ t \in Seq(T)
      /\ DOMAIN t = 1 .. Len(q) - 1
      /\ \A i \in 1 .. Len(q) - 1 : t[i] = q[i + 1]
      /\ Head(q) = q[1]
  BY LenProperties, HeadTailProperties, EmptySeq
<1>2. R = {i \in 2 .. Len(q) : q[i].cmd = DETECT_REQUEST}
  BY <1>1 DEF Requests
<1>3. Requests(t) = {i \in 1 .. Len(q) - 1 : q[i + 1].cmd = DETECT_REQUEST}
  BY <1>1 DEF Requests
<1>4. back \in Bijection(Requests(t), R)
  <2> HIDE DEF t
  <2>1. \A i \in Requests(t) : i + 1 \in R
    BY <1>1, <1>2, <1>3
  <2>2. \A j \in R : j - 1 \in Requests(t) /\ back[j - 1] = j
    BY <1>1, <1>2, <1>3
  <2>3. \A i, j \in Requests(t) : back[i] = back[j] => i = j
    BY <1>1, <1>3
  <2> HIDE DEF R
  <2> QED BY <2>1, <2>2, <2>3 DEF Bijection, Injection, Surjection, IsInjective
<1>5. IsFiniteSet(Requests(t)) /\ Cardinality(Requests(t)) \in Nat
  BY <1>1, RequestsFinite
<1>6. Cardinality(R) = Cardinality(Requests(t))
  <2> HIDE DEF R, t, back
  <2> QED BY <1>4, <1>5, FS_Bijection DEF ExistsBijection
<1>7. 1 \in Requests(q) <=> Head(q).cmd = DETECT_REQUEST
  BY <1>1 DEF Requests
<1>8. Cardinality(R) = IF 1 \in Requests(q) THEN Cardinality(Requests(q)) - 1
                                            ELSE Cardinality(Requests(q))
  BY RequestsFinite, FS_RemoveElement
<1>9. Cardinality(Requests(q)) \in Nat
  BY RequestsFinite
<1> HIDE DEF R, t
<1>10. Cardinality(Requests(q)) = Cardinality(Requests(t)) + IsRequest(Head(q))
  BY <1>5, <1>6, <1>7, <1>8, <1>9 DEF IsRequest
<1> QED BY <1>10 DEF t

\* What the app thread works on counts like a queue of one message.
LEMMA RequestsOne ==
  ASSUME NEW m
  PROVE  Cardinality(Requests(<<m>>)) = IsRequest(m)
<1>1. Requests(<<m>>) = IF m.cmd = DETECT_REQUEST THEN {1} ELSE {}
  BY DEF Requests
<1> QED BY <1>1, FS_EmptySet, FS_Singleton DEF IsRequest

\* The requests under way on one connection and those on the others.
LEMMA UnderWayFinite ==
  ASSUME NEW T, NEW fds \in SUBSET Fds, NEW links \in [Fds -> Seq(T)]
  PROVE  /\ IsFiniteSet(UnderWay(links, fds))
         /\ Cardinality(UnderWay(links, fds)) \in Nat
<1> DEFINE on == [f \in fds |-> {f} \X Requests(links[f])]
           parts == {{f} \X Requests(links[f]) : f \in fds}
<1>1. IsFiniteSet(Fds)
  BY FdAssumption, FS_Interval DEF Fds
<1>2. IsFiniteSet(fds)
  BY <1>1, FS_Subset
<1>3. on \in Surjection(fds, parts)
  BY DEF Surjection
<1>4. IsFiniteSet(parts)
  BY <1>2, <1>3, FS_Surjection
<1>5. \A f \in fds : IsFiniteSet({f} \X Requests(links[f]))
  BY RequestsFinite, FS_Product, FS_Singleton
<1>6. IsFiniteSet(UNION parts)
  BY <1>4, <1>5, FS_UNION
<1> QED BY <1>6, FS_CardinalityType DEF UnderWay

LEMMA UnderWaySplit ==
  ASSUME NEW T, NEW f \in Fds, NEW links \in [Fds -> Seq(T)]
  PROVE  Cardinality(UnderWay(links, Fds)) =
           Cardinality(Requests(links[f])) + Cardinality(UnderWay(links, Fds \ {f}))
<1> DEFINE here == {f} \X Requests(links[f])
           others == UnderWay(links, Fds \ {f})
<1>1. UnderWay(links, Fds) = here \cup others
  BY DEF UnderWay
<1>2. here \cap others = {}
  BY DEF UnderWay
<1>3. /\ IsFiniteSet(here)
      /\ Cardinality(here) = Cardinality(Requests(links[f]))
      /\ Cardinality(Requests(links[f])) \in Nat
  <2>1. IsFiniteSet(Requests(links[f])) /\ Cardinality(Requests(links[f])) \in Nat
    BY RequestsFinite
  <2>2. IsFiniteSet({f}) /\ Cardinality({f}) = 1
    BY FS_Singleton
  <2> QED BY <2>1, <2>2, FS_Product
<1>4. IsFiniteSet(others) /\ Cardinality(others) \in Nat
  BY UnderWayFinite
<1> HIDE DEF here, others
<1>5. Cardinality(here \cup others) = Cardinality(here) + Cardinality(others) - 0
  BY <1>2, <1>3, <1>4, FS_Union, FS_EmptySet
<1>6. Cardinality(UnderWay(links, Fds)) =
        Cardinality(Requests(links[f])) + Cardinality(others)
  BY <1>1, <1>3, <1>4, <1>5
<1> QED BY <1>6 DEF others

\* A connection that gets a frame more, loses its first frame, or all of them.
LEMMA UnderWaySame ==
  ASSUME NEW f \in Fds, NEW links, NEW after, \A g \in Fds \ {f} : after[g] = links[g]
  PROVE  UnderWay(after, Fds \ {f}) = UnderWay(links, Fds \ {f})
BY DEF UnderWay

LEMMA UnderWayAppend ==
  ASSUME NEW f \in Fds, NEW m \in ClientMsg,
         NEW links \in [Fds -> Seq(ClientMsg)], NEW after \in [Fds -> Seq(ClientMsg)],
         after = [links EXCEPT ![f] = Append(@, m)]
  PROVE  Cardinality(UnderWay(after, Fds)) =
           Cardinality(UnderWay(links, Fds)) + IsRequest(m)
<1>1. after[f] = Append(links[f], m) /\ \A g \in Fds \ {f} : after[g] = links[g]
  OBVIOUS
<1>2. UnderWay(after, Fds \ {f}) = UnderWay(links, Fds \ {f})
  BY <1>1, UnderWaySame
<1>3. Cardinality(UnderWay(links, Fds \ {f})) \in Nat
  BY UnderWayFinite
<1>4. /\ Cardinality(Requests(after[f])) = Cardinality(Requests(links[f])) + IsRequest(m)
      /\ Cardinality(Requests(links[f])) \in Nat
  BY <1>1, RequestsAppend, RequestsFinite
<1>5. /\ Cardinality(UnderWay(after, Fds)) =
           Cardinality(Requests(after[f])) + Cardinality(UnderWay(links, Fds \ {f}))
      /\ Cardinality(UnderWay(links, Fds)) =
           Cardinality(Requests(links[f])) + Cardinality(UnderWay(links, Fds \ {f}))
  BY <1>2, UnderWaySplit
<1> QED BY <1>3, <1>4, <1>5 DEF IsRequest

LEMMA UnderWayTail ==
  ASSUME NEW f \in Fds,
         NEW links \in [Fds -> Seq(ClientMsg)], NEW after \in [Fds -> Seq(ClientMsg)],
         links[f] # <<>>, after = [links EXCEPT ![f] = Tail(@)]
  PROVE  Cardinality(UnderWay(links, Fds)) =
           Cardinality(UnderWay(after, Fds)) + IsRequest(Head(links[f]))
<1>1. after[f] = Tail(links[f]) /\ \A g \in Fds \ {f} : after[g] = links[g]
  OBVIOUS
<1>2. UnderWay(after, Fds \ {f}) = UnderWay(links, Fds \ {f})
  BY <1>1, UnderWaySame
<1>3. Cardinality(UnderWay(links, Fds \ {f})) \in Nat
  BY UnderWayFinite
<1>4. /\ Cardinality(Requests(links[f])) =
           Cardinality(Requests(after[f])) + IsRequest(Head(links[f]))
      /\ Cardinality(Requests(after[f])) \in Nat
  BY <1>1, RequestsTail, RequestsFinite
<1>5. /\ Cardinality(UnderWay(after, Fds)) =
           Cardinality(Requests(after[f])) + Cardinality(UnderWay(links, Fds \ {f}))
      /\ Cardinality(UnderWay(links, Fds)) =
           Cardinality(Requests(links[f])) + Cardinality(UnderWay(links, Fds \ {f}))
  BY <1>2, UnderWaySplit
<1> QED BY <1>3, <1>4, <1>5 DEF IsRequest

LEMMA UnderWayFewer ==
  ASSUME NEW T, NEW links \in [Fds -> Seq(T)], NEW after,
         \A f \in Fds : after[f] \in {links[f], <<>>}
  PROVE  Cardinality(UnderWay(after, Fds)) <= Cardinality(UnderWay(links, Fds))
<1>1. UnderWay(after, Fds) \subseteq UnderWay(links, Fds)
  <2>1. \A f \in Fds : Requests(after[f]) \subseteq Requests(links[f])
    BY RequestsOfNone
  <2> QED BY <2>1 DEF UnderWay
<1> QED BY <1>1, UnderWayFinite, FS_Subset

\* Every step: a request is counted where it is, until it is answered or lost.
Queued == Cardinality(Requests(squeue))
InHand == IsRequest(sapp)
Travelling == Cardinality(UnderWay(toServer, Fds))
ToAnswer == Queued + InHand + Travelling

LEMMA CountsTyped ==
  IndInv => Queued \in Nat /\ Travelling \in Nat /\ InHand \in Nat
BY RequestsFinite, UnderWayFinite
   DEF IndInv, FromClients, Queued, Travelling, IsRequest, InHand

LEMMA StepAnswered ==
  ASSUME IndInv, IndInv', answered + ToAnswer <= asked, [Next]_vars
  PROVE  answered' + ToAnswer' <= asked'
<1>0. /\ answered \in Nat /\ asked \in Nat
      /\ Queued \in Nat /\ InHand \in Nat /\ Travelling \in Nat
  BY CountsTyped DEF IndInv, CountInv
<1>1. \E a, n, q, h, t \in Nat :
        /\ answered' = a /\ asked' = n
        /\ Queued' = q /\ InHand' = h /\ Travelling' = t
  <2>1. IndInv' => Queued' \in Nat /\ InHand' \in Nat /\ Travelling' \in Nat
    BY RequestsFinite, UnderWayFinite
       DEF IndInv, FromClients, Queued, Travelling, IsRequest, InHand
  <2> QED BY <2>1 DEF IndInv, CountInv
<1>2. PICK a, n, q, h, t \in Nat :
        /\ answered' = a /\ asked' = n
        /\ Queued' = q /\ InHand' = h /\ Travelling' = t
  BY <1>1
<1>3. answered + (Queued + InHand + Travelling) <= asked
  BY DEF ToAnswer
<1> DEFINE Goal == a + (q + h + t) <= n
<1>4. ASSUME Goal PROVE answered' + ToAnswer' <= asked'
  BY <1>2, <1>4 DEF ToAnswer
<1>types. /\ squeue \in Seq(ClientMsg) /\ toServer \in [Fds -> Seq(ClientMsg)]
          /\ toServer' \in [Fds -> Seq(ClientMsg)]
  BY DEF IndInv, FromClients
\* Nothing but requests lost.
<1>5. ASSUME a = answered, n = asked, q = Queued, h <= InHand, t <= Travelling
      PROVE  Goal
  BY <1>0, <1>3, <1>5
<1>6. ASSUME UNCHANGED <<squeue, sapp, answered, asked>>, t <= Travelling PROVE Goal
  <2>1. a = answered /\ n = asked /\ q = Queued /\ h = InHand
    BY <1>2, <1>6 DEF Queued, InHand, IsRequest
  <2>2. h <= InHand
    BY <2>1, <1>0
  <2> QED BY <1>5, <1>6, <2>1, <2>2
<1>7. ASSUME \A f \in Fds : toServer'[f] \in {toServer[f], <<>>}
      PROVE  t <= Travelling
  BY <1>2, <1>7, <1>types, UnderWayFewer DEF Travelling
<1>8. ASSUME UNCHANGED <<squeue, sapp, toServer, answered, asked>> PROVE Goal
  BY <1>6, <1>7, <1>8
<1>9. ASSUME ServerEnds PROVE h = 0 /\ t <= Travelling
  <2>1. sapp' = None /\ \A f \in Fds : toServer'[f] \in {toServer[f], <<>>}
    BY <1>9 DEF ServerEnds
  <2> QED BY <2>1, <1>2, <1>7, NoneIsMsg DEF IsRequest, InHand, DETECT_REQUEST
<1>10. ASSUME NEW f \in Fds, CommitServer(f) PROVE Goal
  <2>1. /\ toServer[f] \in Seq(ClientMsg) /\ toServer[f] # <<>>
        /\ toServer' = [toServer EXCEPT ![f] = Tail(@)]
        /\ squeue' \in {squeue, Append(squeue, Head(toServer[f]))}
        /\ UNCHANGED <<sapp, answered, asked>>
    BY <1>10, <1>types DEF CommitServer
  <2> DEFINE one == IsRequest(Head(toServer[f]))
  <2>2. Head(toServer[f]) \in ClientMsg
    BY <2>1, TailTyped
  <2>3. Travelling = Travelling' + one
    BY <2>1, <1>types, UnderWayTail DEF Travelling
  <2>4. Queued' = Queued \/ Queued' = Queued + one
    BY <2>1, <2>2, <1>types, RequestsAppend DEF Queued
  <2>5. one = 0 \/ one = 1
    BY DEF IsRequest
  <2> HIDE DEF one
  <2>6. Travelling = t + one /\ (q = Queued \/ q = Queued + one)
    BY <1>2, <2>3, <2>4
  <2>7. a = answered /\ n = asked /\ h = InHand
    BY <1>2, <2>1 DEF IsRequest, InHand
  <2> QED BY <1>0, <1>3, <2>5, <2>6, <2>7
<1>11. ASSUME ServerTakes PROVE Goal
  <2>1. /\ sapp = None /\ squeue # <<>>
        /\ sapp' = Head(squeue) /\ squeue' = Tail(squeue)
        /\ UNCHANGED <<toServer, answered, asked>>
    BY <1>11 DEF ServerTakes
  <2>2. Queued = Queued' + InHand'
    BY <2>1, <1>types, RequestsTail DEF Queued, IsRequest, InHand
  <2>3. a = answered /\ n = asked /\ t = Travelling /\ Queued = q + h
    BY <1>2, <2>1, <2>2 DEF Travelling
  <2> QED BY <1>0, <1>3, <2>3
<1>12. ASSUME ServerActs PROVE Goal
  <2>1. n = asked /\ q = Queued
    BY <1>2, <1>12 DEF ServerActs, Queued
  <2>2. a = answered \/ a = answered + InHand
    BY <1>0, <1>2, <1>12 DEF ServerActs, Reply, IsRequest, InHand
  <2>3. h = 0 /\ t <= Travelling
    <3>1. CASE ServerEnds
      BY <1>9, <3>1
    <3>2. CASE ServerSend([sapp EXCEPT !.cmd = Reply(sapp.cmd)]) /\ ~ServerEnds
      <4>1. sapp' = None /\ \A f \in Fds : toServer'[f] \in {toServer[f], <<>>}
        BY <3>2 DEF ServerSend, Reaches
      <4> QED BY <4>1, <1>2, <1>7, NoneIsMsg DEF IsRequest, InHand, DETECT_REQUEST
    <3> QED BY <1>12, <3>1, <3>2 DEF ServerActs
  <2> QED BY <1>0, <1>3, <2>1, <2>2, <2>3
<1>13. ASSUME NEW c \in Clients, Hello(c) PROVE Goal
  <2> DEFINE m == Message(DETECT_REQUEST, CommFd)
  <2>1. /\ toServer' = [toServer EXCEPT ![link[c]] = Append(@, m)]
        /\ asked' = asked + 1
        /\ UNCHANGED <<squeue, sapp, answered>>
    BY <1>13 DEF Hello
  <2>2. m \in ClientMsg /\ IsRequest(m) = 1
    BY FdAssumption DEF Message, ClientMsg, ClientCmds, IsRequest
  <2> HIDE DEF m
  <2>3. t = Travelling \/ t = Travelling + 1
    <3>1. CASE link[c] \in Fds
      <4>1. Travelling' = Travelling + IsRequest(m)
        BY <1>types, <2>1, <2>2, <3>1, UnderWayAppend DEF Travelling
      <4> QED BY <4>1, <1>2, <2>2
    <3>2. CASE link[c] \notin Fds
      <4>1. toServer' = toServer
        BY <1>types, <2>1, <3>2
      <4> QED BY <4>1, <1>2 DEF Travelling
    <3> QED BY <3>1, <3>2
  <2>4. a = answered /\ n = asked + 1 /\ q = Queued /\ h = InHand
    BY <1>2, <2>1 DEF Queued, IsRequest, InHand
  <2> QED BY <1>0, <1>3, <2>3, <2>4
<1>14. ASSUME NEW c \in Clients, ClientActs(c) PROVE Goal
  <2> DEFINE m == capp[c]
  <2>1. UNCHANGED <<squeue, sapp, answered, asked>> /\ m \in Msg
    BY <1>14 DEF ClientActs, IndInv, ClientInv
  <2>2. CASE toServer' = toServer
    BY <1>8, <2>1, <2>2
  <2>3. CASE IsInet(m.cmd) /\ ClientSends(m) /\ Frame(c, m)
    <3> DEFINE r == [m EXCEPT !.cmd = Answer(m.cmd)]
    <3>1. r \in ClientMsg
      BY <2>1, <2>3, AnswerIsClientCmd
    <3>2. IsRequest(r) = 0
      <4>1. m.cmd \in {5, 6, 7, 8}
        BY <2>1, <2>3 DEF IsInet, Msg
      <4>2. Answer(m.cmd) # DETECT_REQUEST
        BY <4>1 DEF Answer, DETECT_REQUEST, USER_LOGIN, KEEP_ALIVE,
                    UART_PASS_THROUGH, WAIT
      <4> QED BY <2>1, <4>2 DEF Msg, IsRequest
    <3> HIDE DEF r
    <3>3. CASE link[c] \in Fds
      <4>1. toServer' = [toServer EXCEPT ![link[c]] = Append(@, r)]
        BY <1>types, <2>3, <3>3 DEF Frame, r
      <4>2. Travelling' = Travelling + IsRequest(r)
        BY <1>types, <3>1, <3>3, <4>1, UnderWayAppend DEF Travelling
      <4>3. t <= Travelling
        BY <4>2, <1>0, <1>2, <3>2
      <4> QED BY <1>6, <2>1, <4>3
    <3>4. CASE link[c] \notin Fds
      <4>1. toServer' = toServer
        BY <1>types, <2>3, <3>4 DEF Frame
      <4> QED BY <2>2, <4>1
    <3> QED BY <3>3, <3>4
  <2> QED BY <1>14, <2>2, <2>3 DEF ClientActs
<1>15. ASSUME NEW f \in Fds, Drop(f) PROVE Goal
  <2>1. \A g \in Fds : toServer'[g] \in {toServer[g], <<>>}
    BY <1>15, <1>types DEF Drop
  <2> QED BY <1>6, <1>7, <1>15, <2>1 DEF Drop
<1>16. ASSUME ServerCrash PROVE Goal
  <2>1. ServerEnds /\ UNCHANGED <<squeue, answered, asked>>
    BY <1>16 DEF ServerCrash
  <2>2. a = answered /\ n = asked /\ q = Queued
    BY <1>2, <2>1 DEF Queued
  <2> QED BY <1>0, <1>5, <1>9, <2>1, <2>2
<1>17. ASSUME NEW c \in Clients,
              \/ Start(c) \/ Connect(c) \/ CommitClient(c) \/ ClientTakes(c)
              \/ Reconnect(c) \/ Quit(c) \/ \E m \in SerialInput : Type(c, m)
       PROVE  Goal
  BY <1>8, <1>17 DEF Start, Connect, CommitClient, ClientTakes, Reconnect, Quit, Type
<1>18. ASSUME ServerStart \/ UNCHANGED vars PROVE Goal
  BY <1>8, <1>18 DEF ServerStart, vars
<1> HIDE DEF Goal
<1> QED BY <1>4, <1>10, <1>11, <1>12, <1>13, <1>14, <1>15, <1>16, <1>17, <1>18
        DEF Next, ServerApp, ClientApp

\* A pairing request is answered at most once, however often the programs are
\* killed and started again and find their queues as the last run left them.
THEOREM AnsweredOnce == Spec => []AnsweredAtMostOnce
<1> DEFINE Inv == IndInv /\ answered + ToAnswer <= asked
<1>1. Init => Inv
  <2> SUFFICES ASSUME Init PROVE answered + ToAnswer <= asked
    BY InitInv
  <2>1. squeue = <<>> /\ sapp = None /\ toServer = [f \in Fds |-> <<>>]
        /\ answered = 0 /\ asked = 0
    BY DEF Init
  <2>2. UnderWay(toServer, Fds) = {}
    BY <2>1, RequestsOfNone DEF UnderWay
  <2>3. Queued = 0 /\ Travelling = 0 /\ InHand = 0
    <3>1. Queued = 0
      BY <2>1, RequestsOfNone DEF Queued
    <3>2. Travelling = 0
      BY <2>2, RequestsOfNone DEF Travelling
    <3>3. InHand = 0
      BY <2>1, NoneIsMsg DEF IsRequest, InHand, DETECT_REQUEST
    <3> QED BY <3>1, <3>2, <3>3
  <2> QED BY <2>1, <2>3 DEF ToAnswer
<1>2. Inv /\ [Next]_vars => Inv'
  BY StepFromClients, StepServerInv, StepClientInv, StepCountInv, StepAnswered
     DEF IndInv
<1>3. Inv => AnsweredAtMostOnce
  <2> SUFFICES ASSUME Inv PROVE AnsweredAtMostOnce OBVIOUS
  <2>1. /\ answered \in Nat /\ asked \in Nat
        /\ Queued \in Nat /\ Travelling \in Nat /\ InHand \in Nat
    BY CountsTyped DEF IndInv, CountInv
  <2>2. Cardinality(Requests(<<sapp>>)) = InHand
    BY RequestsOne DEF InHand
  <2>3. answered + Queued + InHand + Travelling <= asked
    BY <2>1 DEF ToAnswer
  <2> QED BY <2>2, <2>3 DEF AnsweredAtMostOnce, Queued, Travelling
<1> QED BY <1>1, <1>2, <1>3, PTL DEF Spec
=============================================================================
