----------------------------- MODULE TcpClient -----------------------------
(***************************************************************************)
(* inet_app/tcp_client/tcp_client.c: the client's connection.  The         *)
(* receiving thread (recv) connects, selects and receives; the keep-alive  *)
(* thread (keep) sends heartbeats and replaces the connection when the     *)
(* server has been silent too long; the commit thread notes the server's   *)
(* heartbeats.  They share comm_fd, client_fds and keep_last_time without  *)
(* a lock.                                                                 *)
(*                                                                         *)
(* No other thread of the client opens or closes a descriptor after the    *)
(* start, so socket() always returns the number that close() freed:        *)
(* comm_fd is one number, and the model keeps what it stands for.  Of      *)
(* client_fds it keeps that number's bit: both threads load, change and    *)
(* store the word, but a store after the start always has what its thread  *)
(* made of this bit, so each change of it is one step.                     *)
(*                                                                         *)
(* External parts, as the code uses them: TCP (conn, inbox), the server,   *)
(* the timer signal and the clock.  A system call that is blocked on a     *)
(* socket keeps that socket although its descriptor is closed.             *)
(*                                                                         *)
(* harm and unset are history variables: no action reads them but to set   *)
(* them.                                                                   *)
(*                                                                         *)
(* The definitions named Mutant... are not part of the model: each is the   *)
(* definition that follows it with a mistake in it, and shows which        *)
(* property notices.                                                       *)
(***************************************************************************)
EXTENDS Integers

CONSTANTS
  Conns,        \* sockets; one that nothing refers to any more is used again
  NoConn,       \* no socket
  TimerIsSlow,  \* TRUE: a timer period outlasts a pass of the keep thread,
                \* unless that blocks
  MaxFaults     \* bound: how many connects, connections and calls of socket()
                \* may fail; 0: any number

\* The receiving thread's call may hold one socket, the descriptor another.
ASSUME ConnAssumption ==
  NoConn \notin Conns /\ \A c \in Conns \cup {NoConn} : Conns \ {c} # {}
ASSUME TimerAssumption == TimerIsSlow \in BOOLEAN
ASSUME BoundAssumption == MaxFaults \in Nat

VARIABLES
  comm_fd,      \* the socket the descriptor stands for
  client_fds,   \* is the descriptor in the set to monitor
  alive_flag,   \* set by the timer, cleared by the keep thread
  expired,      \* keep_last_time is at least KEEP_ALIVE_MAX_TIME_C seconds ago
  retry_count,
  c_fifo,       \* a heartbeat of the server waits for the commit thread
  running,      \* FALSE after exit(-1) or a deadly signal
  rpc, tmp_set, rconn, len, \* recv: where it is, its copy of client_fds, the
                            \* socket its system call works on, the length
  kpc, kconn, time_result,  \* keep: the same, and its local
  swept,        \* keep has completed a pass since the last timer signal
  conn,         \* socket |-> its state
  inbox,        \* socket |-> received data waits in it
  silent,       \* the sockets whose connection went dead
  paired,       \* the server got a DETECT_REQUEST
  unset,        \* time_result is of a keep_last_time that was never set
  faults,       \* how many faults there were, if that is bounded
  harm          \* what first went wrong.  fault: connecting, a connection or
                \* socket() failed; haste: the keep thread sent before the first
                \* connect, or replaced the connection on an unset time

shared == <<comm_fd, client_fds, alive_flag, expired, retry_count, c_fifo, running>>
recvvars == <<rpc, tmp_set, rconn, len>>
keepvars == <<kpc, kconn, time_result, swept>>
tcp == <<conn, inbox, silent, paired>>
history == <<unset, faults, harm>>
vars == <<shared, recvvars, keepvars, tcp, history>>

\* new: never connected; syn: connecting; failed: it did not work; fin: closed
\* by the server; dead: and the server's system answered with a reset.
States == {"new", "syn", "open", "failed", "fin", "dead"}

RecvLabels == {"start", "connect", "connecting", "hello", "copy", "select", "wait",
               "read", "reading", "store"}
KeepLabels == {"begin", "first", "second", "beat", "clear", "retry", "close",
               "socket", "fdset", "connect", "connecting", "hello", "count"}

TypeOK ==
  /\ comm_fd \in Conns \cup {NoConn}
  /\ {client_fds, alive_flag, expired, c_fifo, running} \subseteq BOOLEAN
  /\ retry_count \in 0 .. 3
  /\ rpc \in RecvLabels /\ tmp_set \in BOOLEAN /\ rconn \in Conns \cup {NoConn}
  /\ len \in 0 .. 1
  /\ kpc \in KeepLabels /\ kconn \in Conns \cup {NoConn} /\ time_result \in BOOLEAN
  /\ swept \in BOOLEAN
  /\ conn \in [Conns -> States]
  /\ inbox \in [Conns -> BOOLEAN]
  /\ silent \subseteq Conns
  /\ {paired, unset} \subseteq BOOLEAN /\ harm \in {"none", "fault", "haste"}
  /\ faults \in 0 .. MaxFaults

\* tcp_client_init and tcp_client_start.  main's app_t is not initialised: the
\* first keep_last_time is anything.  The timer's first signal comes at once
\* (TIMER_ABSTIME, and the time is long past), before the threads do anything
\* or after (swept).
Init ==
  /\ comm_fd = CHOOSE c \in Conns : TRUE
  /\ client_fds \in BOOLEAN
  /\ alive_flag = FALSE
  /\ expired \in BOOLEAN
  /\ retry_count = 0 /\ c_fifo = FALSE /\ running = TRUE
  /\ rpc = "start" /\ tmp_set = FALSE /\ rconn = NoConn /\ len = 0
  /\ kpc = "begin" /\ kconn = NoConn /\ time_result = FALSE
  /\ swept = TRUE
  /\ conn = [c \in Conns |-> "new"]
  /\ inbox = [c \in Conns |-> FALSE]
  /\ silent = {} /\ paired = FALSE
  /\ unset = FALSE /\ faults = 0 /\ harm = "none"

Harm(kind) == harm' = IF harm = "none" THEN kind ELSE harm

Fault == /\ Harm("fault")
         /\ IF MaxFaults = 0 THEN UNCHANGED faults
            ELSE faults < MaxFaults /\ faults' = faults + 1

RecvAt(label) == running /\ rpc = label
KeepAt(label) == running /\ kpc = label

Exit == running' = FALSE

-----------------------------------------------------------------------------
(* The system calls.                                                       *)

\* recv on the socket, and select's answer for it, do not block.
Ready(c) == inbox[c] \/ conn[c] \in {"new", "failed", "fin", "dead"}

\* A socket that neither the descriptor nor a blocked call refers to is gone.
Gone(c) == /\ conn' = [conn EXCEPT ![c] = "new"]
           /\ inbox' = [inbox EXCEPT ![c] = FALSE]
           /\ silent' = silent \ {c}

\* The socket that socket() returns: any of those that are gone.
FreeConn == CHOOSE c \in Conns : c # rconn

\* The receiving thread's call returns.
Release ==
  /\ rconn' = NoConn
  /\ IF rconn = comm_fd THEN UNCHANGED <<conn, inbox, silent>> ELSE Gone(rconn)

\* tcp_client_send: send on comm_fd, which blocks while it is connecting.  On a
\* closed descriptor it fails and is ignored; on a socket that is not
\* connected, or was reset, SIGPIPE ends the program; after the server closed
\* its end the answer is a reset.
SendAnd(request) ==
  IF comm_fd = NoConn THEN UNCHANGED <<conn, paired, running>>
  ELSE /\ conn[comm_fd] # "syn"
       /\ running' = (conn[comm_fd] \in {"open", "fin"})
       /\ conn' = [conn EXCEPT ![comm_fd] = IF @ = "fin" THEN "dead" ELSE @]
       /\ paired' = (paired \/ (request /\ conn[comm_fd] = "open"
                                       /\ comm_fd \notin silent))

\* connect: one that is connected already, or a closed descriptor, is an error.
MayConnect == comm_fd # NoConn /\ conn[comm_fd] \in {"new", "syn", "failed"}

StartConnect == conn' = [conn EXCEPT ![comm_fd] = "syn"]

-----------------------------------------------------------------------------
(* recive_serve_thread_fun.                                                *)

MutantRecvStart ==
  /\ RecvAt("start")
  /\ client_fds' = FALSE
  /\ rpc' = "connect"
  /\ UNCHANGED <<comm_fd, alive_flag, expired, retry_count, c_fifo, running,
                 tmp_set, rconn, len, keepvars, tcp, history>>

\* FD_ZERO and FD_SET.
RecvStart ==
  /\ RecvAt("start")
  /\ client_fds' = TRUE
  /\ rpc' = "connect"
  /\ UNCHANGED <<comm_fd, alive_flag, expired, retry_count, c_fifo, running,
                 tmp_set, rconn, len, keepvars, tcp, history>>

RecvConnect ==
  /\ RecvAt("connect")
  /\ \/ MayConnect /\ StartConnect /\ rconn' = comm_fd /\ rpc' = "connecting"
        /\ UNCHANGED running
     \/ ~MayConnect /\ Exit /\ UNCHANGED <<conn, rconn, rpc>>
  /\ UNCHANGED <<comm_fd, client_fds, alive_flag, expired, retry_count, c_fifo,
                 tmp_set, len, keepvars, inbox, silent, paired, history>>

MutantRecvConnected ==
  /\ RecvAt("connecting")
  /\ conn[rconn] # "syn"
  /\ IF conn[rconn] = "failed"
       THEN Exit /\ UNCHANGED rpc
       ELSE rpc' = "hello" /\ UNCHANGED running
  /\ Release
  /\ UNCHANGED <<comm_fd, client_fds, alive_flag, expired, retry_count, c_fifo,
                 tmp_set, len, keepvars, paired, history>>

RecvConnected ==
  /\ RecvAt("connecting")
  /\ conn[rconn] # "syn"
  /\ IF conn[rconn] = "failed"
       THEN Exit /\ UNCHANGED <<expired, rpc>>
       ELSE expired' = FALSE /\ rpc' = "hello" /\ UNCHANGED running
  /\ Release
  /\ UNCHANGED <<comm_fd, client_fds, alive_flag, retry_count, c_fifo, tmp_set, len,
                 keepvars, paired, history>>

MutantRecvHello ==
  /\ RecvAt("hello")
  /\ rpc' = "copy"
  /\ UNCHANGED <<shared, tmp_set, rconn, len, keepvars, tcp, history>>

\* The pairing request.
RecvHello ==
  /\ RecvAt("hello")
  /\ SendAnd(TRUE)
  /\ rpc' = "copy"
  /\ UNCHANGED <<comm_fd, client_fds, alive_flag, expired, retry_count, c_fifo,
                 tmp_set, rconn, len, keepvars, inbox, silent, history>>

Copy ==
  /\ RecvAt("copy")
  /\ tmp_set' = client_fds
  /\ rpc' = "select"
  /\ UNCHANGED <<shared, rconn, len, keepvars, tcp, history>>

\* A closed descriptor in the set: select fails, the program exits.  With an
\* empty set, and without a time limit, select never returns.
Select ==
  /\ RecvAt("select")
  /\ IF tmp_set /\ comm_fd = NoConn
       THEN Exit /\ UNCHANGED <<rpc, rconn>>
       ELSE /\ rpc' = "wait"
            /\ rconn' = IF tmp_set THEN comm_fd ELSE NoConn
            /\ UNCHANGED running
  /\ tmp_set' = FALSE
  /\ UNCHANGED <<comm_fd, client_fds, alive_flag, expired, retry_count, c_fifo,
                 len, keepvars, tcp, history>>

SelectReturns ==
  /\ RecvAt("wait")
  /\ rconn # NoConn /\ Ready(rconn)
  /\ Release
  /\ rpc' = "read"
  /\ UNCHANGED <<shared, tmp_set, len, keepvars, paired, history>>

\* recive_data_server receives from what comm_fd stands for by now.
Read ==
  /\ RecvAt("read")
  /\ IF comm_fd = NoConn
       THEN Exit /\ UNCHANGED <<rpc, rconn>>
       ELSE rpc' = "reading" /\ rconn' = comm_fd /\ UNCHANGED running
  /\ UNCHANGED <<comm_fd, client_fds, alive_flag, expired, retry_count, c_fifo,
                 tmp_set, len, keepvars, tcp, history>>

\* Data, or 0 when the server closed the connection (and the loop goes on), or
\* an error, which ends the program.
ReadReturns ==
  /\ RecvAt("reading")
  /\ Ready(rconn)
  /\ IF inbox[rconn] \/ conn[rconn] \in {"fin", "dead"}
       THEN /\ len' = IF inbox[rconn] THEN 1 ELSE 0
            /\ rpc' = "store"
            /\ UNCHANGED running
       ELSE Exit /\ UNCHANGED <<len, rpc>>
  /\ IF rconn = comm_fd
       THEN /\ inbox' = [inbox EXCEPT ![rconn] = FALSE]
            /\ UNCHANGED <<conn, silent>>
       ELSE Gone(rconn)
  /\ rconn' = NoConn
  /\ UNCHANGED <<comm_fd, client_fds, alive_flag, expired, retry_count, c_fifo,
                 tmp_set, keepvars, paired, history>>

\* write_data_c_fifo.
Store ==
  /\ RecvAt("store")
  /\ c_fifo' = (c_fifo \/ len = 1)
  /\ len' = 0
  /\ rpc' = "copy"
  /\ UNCHANGED <<comm_fd, client_fds, alive_flag, expired, retry_count, running,
                 tmp_set, rconn, keepvars, tcp, history>>

-----------------------------------------------------------------------------
(* handle_c_commit_thread_fun and hip_parse_c_success_handle_func: the     *)
(* server's heartbeat.  (Frames and bytes are HipStream's.)                *)

Commit ==
  /\ running /\ c_fifo
  /\ c_fifo' = FALSE
  /\ expired' = FALSE
  /\ UNCHANGED <<comm_fd, client_fds, alive_flag, retry_count, running, recvvars,
                 keepvars, tcp, history>>

-----------------------------------------------------------------------------
(* keep_c_alive_thread_fun, check_alive and retry_connect_server.          *)

\* keep_last_time has not been set yet.
Starting == rpc \in {"start", "connect", "connecting"}

\* The end of check_alive; in most passes a sleep of 10 ms.
Pass == kpc' = "begin" /\ swept' = TRUE

MutantCheckTime ==
  /\ KeepAt("begin")
  /\ time_result' = ~expired
  /\ kpc' = "first"
  /\ unset' = (Starting /\ time_result')
  /\ UNCHANGED <<shared, recvvars, kconn, swept, tcp, faults, harm>>

CheckTime ==
  /\ KeepAt("begin")
  /\ time_result' = expired
  /\ kpc' = "first"
  /\ unset' = (Starting /\ time_result')
  /\ UNCHANGED <<shared, recvvars, kconn, swept, tcp, faults, harm>>

\* The flag is read a second time when the first condition fails.
CheckFlag ==
  /\ KeepAt("first")
  /\ kpc' = IF time_result /\ alive_flag THEN "retry" ELSE "second"
  /\ IF unset /\ kpc' = "retry" THEN Harm("haste") ELSE UNCHANGED harm
  /\ time_result' = FALSE /\ unset' = FALSE
  /\ UNCHANGED <<shared, recvvars, kconn, swept, tcp, faults>>

CheckFlagAgain ==
  /\ KeepAt("second")
  /\ IF alive_flag THEN kpc' = "beat" /\ UNCHANGED swept ELSE Pass
  /\ UNCHANGED <<shared, recvvars, kconn, time_result, tcp, history>>

Beat ==
  /\ KeepAt("beat")
  /\ SendAnd(FALSE)
  /\ kpc' = "clear"
  /\ IF rpc \in {"start", "connect"} THEN Harm("haste") ELSE UNCHANGED harm
  /\ UNCHANGED <<comm_fd, client_fds, alive_flag, expired, retry_count, c_fifo,
                 recvvars, kconn, time_result, swept, inbox, silent, unset, faults>>

ClearFlag ==
  /\ KeepAt("clear")
  /\ alive_flag' = FALSE
  /\ Pass
  /\ UNCHANGED <<comm_fd, client_fds, expired, retry_count, c_fifo, running,
                 recvvars, kconn, time_result, tcp, history>>

MutantRetry ==
  /\ KeepAt("retry")
  /\ IF retry_count > 3
       THEN Exit /\ UNCHANGED <<client_fds, kpc>>
       ELSE client_fds' = FALSE /\ kpc' = "close" /\ UNCHANGED running
  /\ UNCHANGED <<comm_fd, alive_flag, expired, retry_count, c_fifo, recvvars, kconn,
                 time_result, swept, tcp, history>>

\* The fourth retry exits.
Retry ==
  /\ KeepAt("retry")
  /\ IF retry_count > 2
       THEN Exit /\ UNCHANGED <<client_fds, kpc>>
       ELSE client_fds' = FALSE /\ kpc' = "close" /\ UNCHANGED running
  /\ UNCHANGED <<comm_fd, alive_flag, expired, retry_count, c_fifo, recvvars, kconn,
                 time_result, swept, tcp, history>>

\* A socket that the receiving thread is blocked on stays as it is.
Close ==
  /\ KeepAt("close")
  /\ comm_fd' = NoConn
  /\ IF comm_fd \in {NoConn, rconn} THEN UNCHANGED <<conn, inbox, silent>>
                                   ELSE Gone(comm_fd)
  /\ kpc' = "socket"
  /\ UNCHANGED <<client_fds, alive_flag, expired, retry_count, c_fifo, running,
                 recvvars, kconn, time_result, swept, paired, history>>

Socket ==
  /\ KeepAt("socket")
  /\ comm_fd' = FreeConn
  /\ kpc' = "fdset"
  /\ UNCHANGED <<client_fds, alive_flag, expired, retry_count, c_fifo, running,
                 recvvars, kconn, time_result, swept, tcp, history>>

\* FD_SET of the old number all the same; the program goes on without a socket.
SocketFails ==
  /\ KeepAt("socket")
  /\ client_fds' = TRUE
  /\ Pass
  /\ Fault
  /\ UNCHANGED <<comm_fd, alive_flag, expired, retry_count, c_fifo, running,
                 recvvars, kconn, time_result, tcp, unset>>

MutantFdSet ==
  /\ KeepAt("fdset")
  /\ expired' = FALSE
  /\ kpc' = "connect"
  /\ UNCHANGED <<comm_fd, client_fds, alive_flag, retry_count, c_fifo, running,
                 recvvars, kconn, time_result, swept, tcp, history>>

\* FD_SET, and keep_last_time is now.
FdSet ==
  /\ KeepAt("fdset")
  /\ client_fds' = TRUE
  /\ expired' = FALSE
  /\ kpc' = "connect"
  /\ UNCHANGED <<comm_fd, alive_flag, retry_count, c_fifo, running, recvvars, kconn,
                 time_result, swept, tcp, history>>

KeepConnect ==
  /\ KeepAt("connect")
  /\ IF MayConnect
       THEN /\ StartConnect
            /\ kconn' = comm_fd /\ kpc' = "connecting"
            /\ UNCHANGED swept
       ELSE Pass /\ UNCHANGED <<conn, kconn>>
  /\ UNCHANGED <<shared, recvvars, time_result, inbox, silent, paired, history>>

KeepConnected ==
  /\ KeepAt("connecting")
  /\ conn[kconn] # "syn"
  /\ IF conn[kconn] = "failed" THEN Pass ELSE kpc' = "hello" /\ UNCHANGED swept
  /\ kconn' = NoConn
  /\ UNCHANGED <<shared, recvvars, time_result, tcp, history>>

\* The pairing request is given no data, and tcp_client_send refuses that.
KeepHello ==
  /\ KeepAt("hello")
  /\ kpc' = "count"
  /\ UNCHANGED <<shared, recvvars, kconn, time_result, swept, tcp, history>>

CountRetry ==
  /\ KeepAt("count")
  /\ retry_count' = retry_count + 1
  /\ Pass
  /\ UNCHANGED <<comm_fd, client_fds, alive_flag, expired, c_fifo, running, recvvars,
                 kconn, time_result, tcp, history>>

-----------------------------------------------------------------------------
(* The timer, the clock, the network and the server.                       *)

KeepBlocked ==
  \/ kpc = "connecting"
  \/ kpc = "beat" /\ comm_fd # NoConn /\ conn[comm_fd] = "syn"

MutantTick ==
  /\ running
  /\ TimerIsSlow => swept \/ KeepBlocked
  /\ alive_flag' = FALSE
  /\ swept' = FALSE
  /\ UNCHANGED <<comm_fd, client_fds, expired, retry_count, c_fifo, running,
                 recvvars, kpc, kconn, time_result, tcp, history>>

\* handle_alive_fun_c, every 2 s.
Tick ==
  /\ running
  /\ TimerIsSlow => swept \/ KeepBlocked
  /\ alive_flag' = ~alive_flag
  /\ swept' = FALSE
  /\ UNCHANGED <<comm_fd, client_fds, expired, retry_count, c_fifo, running,
                 recvvars, kpc, kconn, time_result, tcp, history>>

\* The server's heartbeats, five in KEEP_ALIVE_MAX_TIME_C seconds, can reach
\* the client.
Hearing ==
  /\ comm_fd # NoConn /\ conn[comm_fd] = "open" /\ comm_fd \notin silent
  /\ rpc \in {"wait", "reading"} => rconn = comm_fd

\* The receiving thread has done what it can: it is blocked, or it goes round
\* and round on a connection the server closed.
RecvSettled ==
  \/ rpc \in {"wait", "reading"} /\ (rconn # NoConn => ~Ready(rconn))
  \/ rpc = "connecting" /\ conn[rconn] = "syn"
  \/ comm_fd # NoConn /\ conn[comm_fd] = "dead"

\* KEEP_ALIVE_MAX_TIME_C seconds pass without a heartbeat.
Expire ==
  /\ running /\ ~expired
  /\ ~Hearing /\ RecvSettled /\ ~c_fifo
  /\ expired' = TRUE
  /\ UNCHANGED <<comm_fd, client_fds, alive_flag, retry_count, c_fifo, running,
                 recvvars, keepvars, tcp, history>>

Connection(c, from, to) ==
  /\ running /\ c \in {comm_fd, rconn} /\ conn[c] = from
  /\ conn' = [conn EXCEPT ![c] = to]
  /\ IF to = "open" THEN UNCHANGED <<faults, harm>> ELSE Fault
  /\ UNCHANGED <<shared, recvvars, keepvars, inbox, silent, paired, unset>>

Establish(c) == Connection(c, "syn", "open")
Refuse(c) == Connection(c, "syn", "failed")
ServerCloses(c) == c \notin silent /\ Connection(c, "open", "fin")

ServerSends(c) ==
  /\ running /\ conn[c] = "open" /\ c \notin silent /\ ~inbox[c]
  /\ inbox' = [inbox EXCEPT ![c] = TRUE]
  /\ UNCHANGED <<shared, recvvars, keepvars, conn, silent, paired, history>>

FallSilent(c) ==
  /\ running /\ conn[c] = "open" /\ c \notin silent
  /\ silent' = silent \cup {c}
  /\ Fault
  /\ UNCHANGED <<shared, recvvars, keepvars, conn, inbox, paired, unset>>

-----------------------------------------------------------------------------
Recv == \/ RecvStart \/ RecvConnect \/ RecvConnected \/ RecvHello
        \/ Copy \/ Select \/ SelectReturns \/ Read \/ ReadReturns \/ Store

Keep == \/ CheckTime \/ CheckFlag \/ CheckFlagAgain \/ Beat \/ ClearFlag
        \/ Retry \/ Close \/ Socket \/ SocketFails \/ FdSet
        \/ KeepConnect \/ KeepConnected \/ KeepHello \/ CountRetry

Network == \E c \in Conns : \/ Establish(c) \/ Refuse(c) \/ ServerCloses(c)
                            \/ ServerSends(c) \/ FallSilent(c)

Next == Recv \/ Keep \/ Commit \/ Tick \/ Expire \/ Network

Spec == Init /\ [][Next]_vars

\* The threads run, the clock goes on, a connect returns, and the timer is
\* periodic: its signals go on, and do not all of them hit the few instructions
\* between the keep thread's reads of the flag, or find it raised, but also the
\* sleep of 10 ms in which the thread spends its time.
FairSpec ==
  /\ Spec
  /\ WF_vars(Recv) /\ WF_vars(Keep) /\ WF_vars(Commit)
  /\ SF_vars(Tick /\ kpc = "begin" /\ ~alive_flag) /\ SF_vars(Tick) /\ SF_vars(Expire)
  /\ \A c \in Conns : WF_vars(Establish(c))

-----------------------------------------------------------------------------
(* Properties.                                                             *)

\* Neither the network nor the keep thread's first moves have done any harm.
Smooth == harm = "none"

\* Then the program goes on, whenever the timer's signals come.
StaysUp == Smooth => running

\* While the connection is not being replaced its descriptor is monitored,
\* although both threads change the set at the start.
MonitorsItsSocket ==
  (rpc # "start" /\ kpc \notin {"close", "socket", "fdset"}) => client_fds

\* A connection is replaced only after something has failed (the comment in
\* check_alive: the line is cut, connect again).
ReplacesOnlyAfterFault == kpc = "close" => harm = "fault"

\* The server gets a pairing request on the first connection.
PairsFirst == <>(paired \/ ~Smooth)

\* What the server sends is received (and handed to the commit thread's fifo).
ServerIsHeard ==
  (\E c \in Conns : inbox[c]) ~> ((rpc = "store" /\ len = 1) \/ ~Smooth)

\* Heartbeats are sent, or the connection is replaced, again and again.
HeartbeatsGoOn == []<>(kpc \in {"clear", "close"} \/ ~running)

\* A connection that went dead is given up.
SilenceIsNoticed == (comm_fd \in silent) ~> (comm_fd \notin silent \/ ~running)
=============================================================================
