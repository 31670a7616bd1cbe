-------------------------- MODULE TcpClient_proofs --------------------------
(***************************************************************************)
(* Proofs about TcpClient for every set of sockets, any number of faults   *)
(* and whatever moments the timer's signals come at.                       *)
(***************************************************************************)
EXTENDS TcpClient, TLAPS

\* A retry that has begun was admitted: the counter has not reached its limit.
RetryWasAdmitted ==
  kpc \in {"close", "socket", "fdset", "connect", "connecting", "hello", "count"}
    => retry_count <= 2

IndInv == TypeOK /\ RetryWasAdmitted /\ MonitorsItsSocket

\* The proof of the invariant: the start, each thread's steps, the others'.
LEMMA InitIndInv == Init => IndInv
<1> SUFFICES ASSUME Init PROVE IndInv
  OBVIOUS
<1>1. /\ conn \in [Conns -> States]
      /\ inbox \in [Conns -> BOOLEAN]
  BY DEF Init, States
<1>2. TypeOK
  <2>1. retry_count \in 0 .. 3 /\ len \in 0 .. 1 /\ faults \in 0 .. MaxFaults
    BY BoundAssumption DEF Init
  <2>2. comm_fd \in Conns
    BY ConnAssumption DEF Init
  <2> QED
    BY <1>1, <2>1, <2>2 DEF Init, TypeOK, RecvLabels, KeepLabels
<1>3. RetryWasAdmitted /\ MonitorsItsSocket
  BY DEF Init, RetryWasAdmitted, MonitorsItsSocket
<1> QED
  BY <1>2, <1>3 DEF IndInv

\* A send changes the connection's state and the paired sockets, and may end
\* the program.
LEMMA SendTypes ==
  ASSUME TypeOK, NEW request, SendAnd(request)
  PROVE  conn' \in [Conns -> States] /\ paired' \in BOOLEAN /\ running' \in BOOLEAN
<1>1. CASE comm_fd = NoConn
  BY <1>1 DEF TypeOK, SendAnd
<1>2. CASE comm_fd # NoConn
  <2>1. conn' \in [Conns -> States]
    BY DEF TypeOK, SendAnd, States
  <2>2. paired' \in BOOLEAN
    BY DEF TypeOK, SendAnd
  <2>3. running' \in BOOLEAN
    BY <1>2 DEF SendAnd
  <2> QED
    BY <2>1, <2>2, <2>3
<1> QED
  BY <1>1, <1>2

LEMMA RecvStep == ASSUME IndInv, Recv PROVE IndInv'
<1> USE DEF IndInv, RecvAt, KeepAt, shared, recvvars, keepvars, tcp, history, Release, Gone
<1>1. CASE RecvStart
  <2>1. TypeOK'
    BY <1>1 DEF RecvStart, TypeOK, RecvLabels
  <2>2. RetryWasAdmitted' /\ MonitorsItsSocket'
    BY <1>1 DEF RecvStart, RetryWasAdmitted, MonitorsItsSocket
  <2> QED
    BY <2>1, <2>2
<1>2. CASE RecvConnect
  <2>1. TypeOK'
    BY <1>2 DEF RecvConnect, MayConnect, StartConnect, Exit, TypeOK, RecvLabels,
       States
  <2>2. RetryWasAdmitted' /\ MonitorsItsSocket'
    BY <1>2 DEF RecvConnect, RetryWasAdmitted, MonitorsItsSocket
  <2> QED
    BY <2>1, <2>2
<1>3. CASE RecvConnected
  <2>1. TypeOK'
    BY <1>3 DEF RecvConnected, Exit, TypeOK, RecvLabels, States
  <2>2. RetryWasAdmitted' /\ MonitorsItsSocket'
    BY <1>3 DEF RecvConnected, RetryWasAdmitted, MonitorsItsSocket
  <2> QED
    BY <2>1, <2>2
<1>4. CASE RecvHello
  <2>1. TypeOK'
    <3>1. conn' \in [Conns -> States] /\ paired' \in BOOLEAN /\ running' \in BOOLEAN
      BY <1>4, SendTypes DEF RecvHello, TypeOK
    <3> QED
      BY <1>4, <3>1 DEF RecvHello, TypeOK, RecvLabels
  <2>2. RetryWasAdmitted' /\ MonitorsItsSocket'
    BY <1>4 DEF RecvHello, RetryWasAdmitted, MonitorsItsSocket
  <2> QED
    BY <2>1, <2>2
<1>5. CASE Copy
  <2>1. TypeOK'
    BY <1>5 DEF Copy, TypeOK, RecvLabels
  <2>2. RetryWasAdmitted' /\ MonitorsItsSocket'
    BY <1>5 DEF Copy, RetryWasAdmitted, MonitorsItsSocket
  <2> QED
    BY <2>1, <2>2
<1>6. CASE Select
  <2>1. TypeOK'
    BY <1>6 DEF Select, Exit, TypeOK, RecvLabels
  <2>2. RetryWasAdmitted' /\ MonitorsItsSocket'
    BY <1>6 DEF Select, RetryWasAdmitted, MonitorsItsSocket
  <2> QED
    BY <2>1, <2>2
<1>7. CASE SelectReturns
  <2>1. TypeOK'
    BY <1>7 DEF SelectReturns, TypeOK, RecvLabels, States
  <2>2. RetryWasAdmitted' /\ MonitorsItsSocket'
    BY <1>7 DEF SelectReturns, RetryWasAdmitted, MonitorsItsSocket
  <2> QED
    BY <2>1, <2>2
<1>8. CASE Read
  <2>1. TypeOK'
    BY <1>8 DEF Read, Exit, TypeOK, RecvLabels
  <2>2. RetryWasAdmitted' /\ MonitorsItsSocket'
    BY <1>8 DEF Read, RetryWasAdmitted, MonitorsItsSocket
  <2> QED
    BY <2>1, <2>2
<1>9. CASE ReadReturns
  <2>1. TypeOK'
    <3>1. len' \in 0 .. 1 /\ rpc' \in RecvLabels /\ running' \in BOOLEAN
      <4>1. CASE inbox[rconn] \/ conn[rconn] \in {"fin", "dead"}
        <5>1. running' = running /\ rpc' = "store"
          BY <1>9, <4>1 DEF ReadReturns
        <5>2. len' = IF inbox[rconn] THEN 1 ELSE 0
          BY <1>9, <4>1 DEF ReadReturns
        <5> QED
          BY <5>1, <5>2 DEF TypeOK, RecvLabels
      <4>2. CASE ~(inbox[rconn] \/ conn[rconn] \in {"fin", "dead"})
        BY <1>9, <4>2 DEF ReadReturns, Exit, TypeOK
      <4> QED
        BY <4>1, <4>2
    <3> QED
      BY <1>9, <3>1 DEF ReadReturns, TypeOK, States
  <2>2. RetryWasAdmitted' /\ MonitorsItsSocket'
    BY <1>9 DEF ReadReturns, RetryWasAdmitted, MonitorsItsSocket
  <2> QED
    BY <2>1, <2>2
<1>10. CASE Store
  <2>1. TypeOK'
    BY <1>10 DEF Store, TypeOK, RecvLabels
  <2>2. RetryWasAdmitted' /\ MonitorsItsSocket'
    BY <1>10 DEF Store, RetryWasAdmitted, MonitorsItsSocket
  <2> QED
    BY <2>1, <2>2
<1> QED
  BY <1>1, <1>2, <1>3, <1>4, <1>5, <1>6, <1>7, <1>8, <1>9, <1>10 DEF Recv

LEMMA KeepStep == ASSUME IndInv, Keep PROVE IndInv'
<1> USE DEF IndInv, RecvAt, KeepAt, shared, recvvars, keepvars, tcp, history, Harm, Fault, Gone
<1>1. CASE CheckTime
  <2>1. TypeOK'
    BY <1>1 DEF CheckTime, Starting, TypeOK, KeepLabels
  <2>2. RetryWasAdmitted' /\ MonitorsItsSocket'
    BY <1>1 DEF CheckTime, RetryWasAdmitted, MonitorsItsSocket
  <2> QED
    BY <2>1, <2>2
<1>2. CASE CheckFlag
  <2>1. TypeOK'
    BY <1>2 DEF CheckFlag, TypeOK, KeepLabels
  <2>2. RetryWasAdmitted' /\ MonitorsItsSocket'
    BY <1>2 DEF CheckFlag, RetryWasAdmitted, MonitorsItsSocket
  <2> QED
    BY <2>1, <2>2
<1>3. CASE CheckFlagAgain
  <2>1. TypeOK'
    BY <1>3 DEF CheckFlagAgain, Pass, TypeOK, KeepLabels
  <2>2. RetryWasAdmitted' /\ MonitorsItsSocket'
    BY <1>3 DEF CheckFlagAgain, Pass, RetryWasAdmitted, MonitorsItsSocket
  <2> QED
    BY <2>1, <2>2
<1>4. CASE Beat
  <2>1. TypeOK'
    <3>1. conn' \in [Conns -> States] /\ paired' \in BOOLEAN /\ running' \in BOOLEAN
      BY <1>4, SendTypes DEF Beat
    <3> QED
      BY <1>4, <3>1 DEF Beat, TypeOK, KeepLabels
  <2>2. RetryWasAdmitted' /\ MonitorsItsSocket'
    BY <1>4 DEF Beat, RetryWasAdmitted, MonitorsItsSocket
  <2> QED
    BY <2>1, <2>2
<1>5. CASE ClearFlag
  <2>1. TypeOK'
    BY <1>5 DEF ClearFlag, Pass, TypeOK, KeepLabels
  <2>2. RetryWasAdmitted' /\ MonitorsItsSocket'
    BY <1>5 DEF ClearFlag, Pass, RetryWasAdmitted, MonitorsItsSocket
  <2> QED
    BY <2>1, <2>2
<1>6. CASE Retry
  <2>1. TypeOK'
    BY <1>6 DEF Retry, Exit, TypeOK, KeepLabels
  <2>2. RetryWasAdmitted' /\ MonitorsItsSocket'
    <3>1. CASE retry_count > 2
      BY <1>6, <3>1 DEF Retry, RetryWasAdmitted, MonitorsItsSocket
    <3>2. CASE ~(retry_count > 2)
      <4>1. retry_count' <= 2
        BY <1>6, <3>2 DEF Retry, TypeOK
      <4>2. kpc' = "close"
        BY <1>6, <3>2 DEF Retry
      <4> QED
        BY <4>1, <4>2 DEF RetryWasAdmitted, MonitorsItsSocket
    <3> QED
      BY <3>1, <3>2
  <2> QED
    BY <2>1, <2>2
<1>7. CASE Close
  <2>1. TypeOK'
    BY <1>7 DEF Close, TypeOK, KeepLabels, States
  <2>2. RetryWasAdmitted' /\ MonitorsItsSocket'
    BY <1>7 DEF Close, RetryWasAdmitted, MonitorsItsSocket
  <2> QED
    BY <2>1, <2>2
<1>8. CASE Socket \/ SocketFails
  <2>1. CASE Socket
    <3>1. comm_fd' \in Conns
      BY <2>1, ConnAssumption DEF Socket, FreeConn, TypeOK
    <3>2. TypeOK'
      BY <2>1, <3>1 DEF Socket, TypeOK, KeepLabels
    <3>3. RetryWasAdmitted' /\ MonitorsItsSocket'
      BY <2>1 DEF Socket, RetryWasAdmitted, MonitorsItsSocket
    <3> QED
      BY <3>2, <3>3
  <2>2. CASE SocketFails
    <3>1. TypeOK'
      BY <2>2, BoundAssumption DEF SocketFails, Pass, TypeOK, KeepLabels
    <3>2. RetryWasAdmitted' /\ MonitorsItsSocket'
      BY <2>2 DEF SocketFails, Pass, RetryWasAdmitted, MonitorsItsSocket
    <3> QED
      BY <3>1, <3>2
  <2> QED
    BY <1>8, <2>1, <2>2
<1>9. CASE FdSet
  <2>1. TypeOK'
    BY <1>9 DEF FdSet, TypeOK, KeepLabels
  <2>2. RetryWasAdmitted' /\ MonitorsItsSocket'
    BY <1>9 DEF FdSet, RetryWasAdmitted, MonitorsItsSocket
  <2> QED
    BY <2>1, <2>2
<1>10. CASE KeepConnect
  <2>1. TypeOK'
    BY <1>10 DEF KeepConnect, MayConnect, StartConnect, Pass, TypeOK,
       KeepLabels, States
  <2>2. RetryWasAdmitted' /\ MonitorsItsSocket'
    BY <1>10 DEF KeepConnect, RetryWasAdmitted, MonitorsItsSocket
  <2> QED
    BY <2>1, <2>2
<1>11. CASE KeepConnected
  <2>1. TypeOK'
    BY <1>11 DEF KeepConnected, Pass, TypeOK, KeepLabels
  <2>2. RetryWasAdmitted' /\ MonitorsItsSocket'
    BY <1>11 DEF KeepConnected, RetryWasAdmitted, MonitorsItsSocket
  <2> QED
    BY <2>1, <2>2
<1>12. CASE KeepHello
  <2>1. TypeOK'
    BY <1>12 DEF KeepHello, TypeOK, KeepLabels
  <2>2. RetryWasAdmitted' /\ MonitorsItsSocket'
    BY <1>12 DEF KeepHello, RetryWasAdmitted, MonitorsItsSocket
  <2> QED
    BY <2>1, <2>2
<1>13. CASE CountRetry
  <2>1. TypeOK'
    BY <1>13 DEF CountRetry, Pass, TypeOK, RetryWasAdmitted, KeepLabels
  <2>2. RetryWasAdmitted' /\ MonitorsItsSocket'
    BY <1>13 DEF CountRetry, Pass, RetryWasAdmitted, MonitorsItsSocket
  <2> QED
    BY <2>1, <2>2
<1> QED
  BY <1>1, <1>2, <1>3, <1>4, <1>5, <1>6, <1>7, <1>8, <1>9, <1>10, <1>11, <1>12,
     <1>13 DEF Keep

LEMMA OtherStep ==
  ASSUME IndInv, Commit \/ Tick \/ Expire \/ Network PROVE IndInv'
<1> USE DEF IndInv, TypeOK, RetryWasAdmitted, MonitorsItsSocket, shared, recvvars,
            keepvars, tcp, history, Harm, Fault
<1>1. CASE Commit
  BY <1>1 DEF Commit
<1>2. CASE Tick
  BY <1>2 DEF Tick
<1>3. CASE Expire
  BY <1>3 DEF Expire
<1>4. CASE Network
  <2> PICK c \in Conns : \/ Establish(c) \/ Refuse(c) \/ ServerCloses(c)
                          \/ ServerSends(c) \/ FallSilent(c)
    BY <1>4 DEF Network
  <2>1. CASE Establish(c) \/ Refuse(c) \/ ServerCloses(c)
    BY <2>1, BoundAssumption DEF Establish, Refuse, ServerCloses, Connection, States
  <2>2. CASE ServerSends(c)
    BY <2>2 DEF ServerSends
  <2>3. CASE FallSilent(c)
    BY <2>3, BoundAssumption DEF FallSilent
  <2> QED
    BY <2>1, <2>2, <2>3
<1> QED
  BY <1>1, <1>2, <1>3, <1>4

LEMMA NextIndInv == IndInv /\ [Next]_vars => IndInv'
<1> SUFFICES ASSUME IndInv, [Next]_vars PROVE IndInv'
  OBVIOUS
<1>1. CASE Next
  BY <1>1, RecvStep, KeepStep, OtherStep DEF Next
<1>2. CASE UNCHANGED vars
  BY <1>2 DEF vars, shared, recvvars, keepvars, tcp, history, IndInv, TypeOK,
     RetryWasAdmitted, MonitorsItsSocket
<1> QED
  BY <1>1, <1>2

\* The inductive invariant, whatever the network and the server do.
THEOREM SpecIndInv == Spec => []IndInv
BY InitIndInv, NextIndInv, PTL DEF Spec

\* tcp_client.c: the variables keep their types for every set of sockets and
\* whatever fails; above all a retry is never begun once retry_count is 3.
THEOREM TypeCorrect == Spec => []TypeOK
<1>1. IndInv => TypeOK
  BY DEF IndInv
<1> QED
  BY <1>1, SpecIndInv, PTL

\* recive_serve_thread_fun and retry_connect_server: whatever the order of the
\* two threads' changes of client_fds, a connection that is not being replaced
\* is monitored.
THEOREM AlwaysMonitored == Spec => []MonitorsItsSocket
<1>1. IndInv => MonitorsItsSocket
  BY DEF IndInv
<1> QED
  BY <1>1, SpecIndInv, PTL

-----------------------------------------------------------------------------
(* While neither the network nor the keep thread's first moves have done    *)
(* any harm, the first connection is the one every call works on.          *)

FirstConnection ==
  /\ running /\ comm_fd \in Conns /\ silent = {}
  /\ kpc \in {"begin", "first", "second", "beat", "clear"}
  /\ rpc \in {"start", "connect"} => conn[comm_fd] = "new"
  /\ rpc = "connecting" => rconn = comm_fd /\ conn[comm_fd] \in {"syn", "open"}
  /\ ~Starting => conn[comm_fd] = "open" /\ ~expired
  /\ rpc = "select" => tmp_set
  /\ rpc \in {"wait", "reading"} => rconn = comm_fd
  /\ kpc = "first" /\ time_result => unset

SmoothInv == Smooth => FirstConnection

LEMMA InitSmoothInv == Init => SmoothInv
<1>1. Init => comm_fd \in Conns
  BY ConnAssumption DEF Init
<1> QED
  BY <1>1 DEF Init, SmoothInv, FirstConnection, Starting

LEMMA RecvKeepsConnection == ASSUME IndInv, FirstConnection, Recv PROVE FirstConnection'
<1> USE ConnAssumption
    DEF IndInv, TypeOK, MonitorsItsSocket, FirstConnection, Starting, RecvAt, shared,
        recvvars, keepvars, tcp, history, Release
<1>1. CASE RecvStart
  BY <1>1 DEF RecvStart
<1>2. CASE RecvConnect
  BY <1>2 DEF RecvConnect, MayConnect, StartConnect
<1>3. CASE RecvConnected
  BY <1>3 DEF RecvConnected
<1>4. CASE RecvHello
  BY <1>4 DEF RecvHello, SendAnd
<1>5. CASE Copy
  BY <1>5 DEF Copy
<1>6. CASE Select
  BY <1>6 DEF Select
<1>7. CASE SelectReturns
  BY <1>7 DEF SelectReturns
<1>8. CASE Read
  BY <1>8 DEF Read
<1>9. CASE ReadReturns
  BY <1>9 DEF ReadReturns, Ready
<1>10. CASE Store
  BY <1>10 DEF Store
<1> QED
  BY <1>1, <1>2, <1>3, <1>4, <1>5, <1>6, <1>7, <1>8, <1>9, <1>10 DEF Recv

\* The keep thread may read the time before it has been set, and send while the
\* first connect is under way, but goes no further than that.
LEMMA KeepKeepsConnection ==
  ASSUME IndInv, FirstConnection, Keep, Smooth' PROVE FirstConnection'
<1> USE ConnAssumption
    DEF IndInv, TypeOK, FirstConnection, Starting, KeepAt, shared, recvvars, keepvars,
        tcp, history, Smooth, Harm
<1>1. CASE CheckTime
  BY <1>1 DEF CheckTime
<1>2. CASE CheckFlag
  BY <1>2 DEF CheckFlag
<1>3. CASE CheckFlagAgain
  BY <1>3 DEF CheckFlagAgain, Pass
<1>4. CASE Beat
  BY <1>4 DEF Beat, SendAnd
<1>5. CASE ClearFlag
  BY <1>5 DEF ClearFlag, Pass
<1>6. CASE Retry \/ Close \/ Socket \/ SocketFails \/ FdSet
  BY <1>6 DEF Retry, Close, Socket, SocketFails, FdSet
<1>7. CASE KeepConnect \/ KeepConnected \/ KeepHello \/ CountRetry
  BY <1>7 DEF KeepConnect, KeepConnected, KeepHello, CountRetry
<1> QED
  BY <1>1, <1>2, <1>3, <1>4, <1>5, <1>6, <1>7 DEF Keep

LEMMA OthersKeepConnection ==
  ASSUME IndInv, FirstConnection, Commit \/ Tick \/ Expire \/ Network, Smooth'
  PROVE  FirstConnection'
<1> USE ConnAssumption
    DEF IndInv, TypeOK, FirstConnection, Starting, shared, recvvars, keepvars, tcp,
        history, Smooth, Harm, Fault
<1>1. CASE Commit
  BY <1>1 DEF Commit
<1>2. CASE Tick
  BY <1>2 DEF Tick
<1>3. CASE Expire
  BY <1>3 DEF Expire, Hearing, RecvSettled, Ready
<1>4. CASE Network
  <2> PICK c \in Conns : \/ Establish(c) \/ Refuse(c) \/ ServerCloses(c)
                          \/ ServerSends(c) \/ FallSilent(c)
    BY <1>4 DEF Network
  <2>1. CASE Establish(c)
    BY <2>1 DEF Establish, Connection
  <2>2. CASE ServerSends(c)
    BY <2>2 DEF ServerSends
  <2>3. ~Refuse(c) /\ ~ServerCloses(c) /\ ~FallSilent(c)
    BY DEF Refuse, ServerCloses, FallSilent, Connection
  <2> QED
    BY <2>1, <2>2, <2>3
<1> QED
  BY <1>1, <1>2, <1>3, <1>4

\* What went wrong first is not forgotten.
LEMMA SmoothBefore == ASSUME Next, Smooth' PROVE Smooth
<1> USE DEF Smooth, history, Harm, Fault
<1>1. CASE Recv
  BY <1>1 DEF Recv, RecvStart, RecvConnect, RecvConnected, RecvHello, Copy, Select,
     SelectReturns, Read, ReadReturns, Store
<1>2. CASE Keep
  BY <1>2 DEF Keep, CheckTime, CheckFlag, CheckFlagAgain, Beat, ClearFlag, Retry, Close,
     Socket, SocketFails, FdSet, KeepConnect, KeepConnected, KeepHello, CountRetry
<1>3. CASE Commit \/ Tick \/ Expire \/ Network
  BY <1>3 DEF Commit, Tick, Expire, Network, Establish, Refuse, ServerCloses,
     Connection, ServerSends, FallSilent
<1> QED
  BY <1>1, <1>2, <1>3 DEF Next

\* tcp_client.c, all three threads: however they interleave, and at whatever
\* moment the timer's first signal comes, a client on whose network nothing has
\* failed goes on, unless its keep thread sent before the first connect or
\* replaced the connection because of the keep_last_time that nobody had set.
THEOREM SmoothSuffices == Spec => []StaysUp
<1>1. Init => IndInv /\ SmoothInv
  BY InitIndInv, InitSmoothInv
<1>2. IndInv /\ SmoothInv /\ [Next]_vars => IndInv' /\ SmoothInv'
  <2> SUFFICES ASSUME IndInv, SmoothInv, [Next]_vars, Smooth' PROVE FirstConnection'
    BY NextIndInv DEF SmoothInv
  <2>1. CASE Next
    BY <2>1, SmoothBefore, RecvKeepsConnection, KeepKeepsConnection,
       OthersKeepConnection DEF Next, SmoothInv
  <2>2. CASE UNCHANGED vars
    BY <2>2 DEF vars, shared, recvvars, keepvars, tcp, history, Smooth, SmoothInv,
       FirstConnection, Starting
  <2> QED
    BY <2>1, <2>2
<1>3. SmoothInv => StaysUp
  BY DEF SmoothInv, FirstConnection, StaysUp
<1> QED
  BY <1>1, <1>2, <1>3, PTL DEF Spec
=============================================================================
