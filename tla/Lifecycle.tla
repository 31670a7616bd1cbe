----------------------------- MODULE Lifecycle -----------------------------
(***************************************************************************)
(* main.c and the init, start, stop and deinit functions of its parts: the *)
(* client's and the server's program from the first thread to the end of   *)
(* main.  main and state_system of app.c are lists of the calls they make; *)
(* every thread loops while its flag is set.  app_t is a local of main:    *)
(* the flags are anything until they are assigned.                         *)
(*                                                                         *)
(* What the threads do in their loops is the other modules'; here they     *)
(* test their flag, wait for input, and send to the message queue.         *)
(* External parts: the queue, which outlives the program (a message may    *)
(* wait in it from an earlier run), and the input.                         *)
(*                                                                         *)
(* The server has a row and a detached commit thread per client.  Which    *)
(* free row a client gets is ServerTable's; worker[i] is the thread of row *)
(* i, and OtherSends what a second thread of a row does to the queue.  An  *)
(* exit(-1) of a thread is left out, and what tcp_server_stop does past    *)
(* the table's end when every row is online.                               *)
(*                                                                         *)
(* A command 0 ("quit") reaches only the server's queue: the client is the *)
(* 32-bit build, where the command alone is the message's type, and msgsnd *)
(* refuses type 0.  The definitions named Mutant... are not part of the    *)
(* model: each is the definition that follows it with a mistake in it.     *)
(***************************************************************************)
EXTENDS Naturals, Sequences

CONSTANTS
  QueueCap,  \* the messages the queue holds
  Rows       \* TCP_MAX_CLIENT

ASSUME CapAssumption == QueueCap \in Nat \ {0}
ASSUME RowsAssumption == Rows \in Nat \ {0}

VARIABLES
  build,    \* INET_TCP_SERVER
  flag,     \* thread |-> its ..._flag is set
  thread,   \* thread |-> what it is doing
  main,     \* main's next call, an index into Calls
  stop,     \* the app thread's next call in state_system, an index into Stop;
            \* 0 before the first command 0
  timer,    \* alive_timer
  queue,    \* the message queue
  row,      \* the server's client table: i |-> is_online and commit_flag
  worker,   \* i |-> what the commit thread of row i is doing
  freed,    \* the parts that were deinitialised
  freedRow, \* the rows whose fifo and parser tcp_server_deinit freed
  crashed   \* freed memory was used: by the second timer_delete of a timer,
            \* or by a thread that runs on

process == <<build, main, stop>>
table == <<row, worker>>
memory == <<freed, freedRow, crashed>>
vars == <<process, flag, thread, timer, queue, table, memory>>

-----------------------------------------------------------------------------
(* The calls.                                                              *)

Create(t) == <<"create", t>>
Set(t)    == <<"set", t>>
Clear(t)  == <<"clear", t>>
Join(t)   == <<"join", t>>
Deinit(r) == <<"deinit", r>>
Arm       == <<"arm", "timer">>
Disarm    == <<"disarm", "timer">>
Exit      == <<"exit", "process">>  \* main returns

Row == 0 .. Rows - 1

\* The loops over the rows in tcp_server_stop and in tcp_server_deinit: a call
\* for each row.  Each loop ends at the first row that is offline.
TellRows == [n \in 1 .. Rows |-> <<"tell", n - 1>>]
FreeRows == [n \in 1 .. Rows |-> <<"free", n - 1>>]

Uart == {"recive", "handle", "send"}
Builds == {"client", "server"}
Threads == [b \in Builds |->
  IF b = "client" THEN {"app", "led", "connect", "keep", "commit"} \cup Uart
                  ELSE {"app", "mng", "keep"}]
AllThreads == Threads["client"] \cup Threads["server"]

app_start == <<Create("app"), Set("app")>>

app_led_start == <<Set("led"), Create("led")>>

tty_start == <<Create("recive"), Create("handle"), Create("send"),
               Set("recive"), Set("handle"), Set("send")>>

MutantClientStart == <<Arm, Create("connect"), Create("keep"), Create("commit"),
                       Set("keep"), Set("commit")>>

tcp_client_start == <<Arm, Create("connect"), Create("keep"), Create("commit"),
                      Set("connect"), Set("keep"), Set("commit")>>

tcp_server_start == <<Arm, Create("mng"), Create("keep"), Set("mng"), Set("keep")>>

app_stop == <<Clear("app")>>
app_led_stop == <<Clear("led")>>
tty_stop == <<Clear("recive"), Clear("handle"), Clear("send")>>

tcp_client_stop == <<Disarm, Clear("connect"), Clear("keep"), Clear("commit")>>

MutantServerStop == <<Clear("keep")>> \o TellRows \o <<Disarm>>

tcp_server_stop == <<Clear("mng"), Clear("keep")>> \o TellRows \o <<Disarm>>

tcp_server_deinit == FreeRows \o <<Deinit("inet")>>

\* state_system: what the app thread does for command 0 (never the client's,
\* which no command 0 reaches).
Stop == [b \in Builds |->
  IF b = "client" THEN tcp_client_stop \o tty_stop \o app_led_stop \o app_stop
                  ELSE tcp_server_stop \o app_stop]

Start == [b \in Builds |->
  IF b = "client" THEN app_start \o app_led_start \o tty_start \o tcp_client_start
                  ELSE app_start \o tcp_server_start]

Joins == [b \in Builds |->
  IF b = "client"
    THEN <<Join("app"), Join("recive"), Join("handle"), Join("send"),
           Join("led"), Join("connect"), Join("keep"), Join("commit")>>
    ELSE <<Join("app"), Join("mng"), Join("keep")>>]

MutantEnd == [b \in Builds |->
  IF b = "client"
    THEN tty_stop \o app_led_stop \o app_stop \o tcp_client_stop \o
         <<Deinit("uart"), Deinit("led"), Deinit("msg"), Deinit("inet"), Exit>>
    ELSE app_stop \o <<Deinit("msg")>> \o tcp_server_deinit \o tcp_server_stop
         \o <<Exit>>]

End == [b \in Builds |->
  IF b = "client"
    THEN tty_stop \o app_led_stop \o app_stop \o tcp_client_stop \o
         <<Deinit("uart"), Deinit("led"), Deinit("msg"), Deinit("inet"), Exit>>
    ELSE app_stop \o tcp_server_stop \o <<Deinit("msg")>> \o tcp_server_deinit
         \o <<Exit>>]

\* tcp_server_part and tcp_client_part, and the return of main.
Calls == [b \in Builds |-> Start[b] \o Joins[b] \o End[b]]

Messages == {"quit", "other"}
Sendable(b) == IF b = "server" THEN Messages ELSE {"other"}
Parts == {"uart", "led", "msg", "inet"}

ThreadStates == {"none", "running", "reading", "sending", "stopping", "ended"}
WorkerStates == {"none", "running", "sending", "ended"}

TypeOK ==
  /\ build \in Builds
  /\ flag \in [AllThreads -> BOOLEAN]
  /\ thread \in [AllThreads -> ThreadStates]
  /\ main \in 1 .. Len(Calls[build]) + 1
  /\ stop \in 0 .. Len(Stop[build]) + 1
  /\ timer \in {"none", "armed", "deleted"}
  /\ queue \in Seq(Messages) /\ Len(queue) <= QueueCap
  /\ row \in [Row -> [online : BOOLEAN, commit : BOOLEAN]]
  /\ worker \in [Row -> WorkerStates]
  /\ freed \subseteq Parts /\ freedRow \subseteq Row
  /\ crashed \in BOOLEAN

\* The inits have been called; the queue is what an earlier run left in it.
Init ==
  /\ build \in Builds
  /\ \E unset \in BOOLEAN :
       flag = [t \in AllThreads |-> unset /\ t \in Threads[build]]
  /\ thread = [t \in AllThreads |-> "none"]
  /\ main = 1 /\ stop = 0
  /\ timer = "none"
  /\ queue \in {<<>>} \cup {<<m>> : m \in Sendable(build)}
  /\ row = [i \in Row |-> [online |-> FALSE, commit |-> FALSE]]
  /\ worker = [i \in Row |-> "none"]
  /\ freed = {} /\ freedRow = {}
  /\ crashed = FALSE

Done == main = Len(Calls[build]) + 1
Alive == ~Done /\ ~crashed

-----------------------------------------------------------------------------
(* What a call does, made by main or by the app thread.                    *)

\* timer_delete of a timer that was never created, or was deleted, uses memory
\* that is not a timer's: an error, or the end.
DisarmTimer ==
  IF timer = "armed" THEN timer' = "deleted" /\ UNCHANGED crashed
  ELSE crashed' \in BOOLEAN /\ UNCHANGED timer

SetFlag(t, value) == flag' = [flag EXCEPT ![t] = value]

\* The place in the list after a call: past the loop when the row is offline.
After(call, at) ==
  IF call[1] \in {"tell", "free"} /\ ~row[call[2]].online
    THEN at + (Rows - call[2]) ELSE at + 1

TellRow(i) ==
  row' = IF row[i].online THEN [row EXCEPT ![i].commit = FALSE] ELSE row

StopCall(call) ==
  \/ /\ call[1] = "clear"
     /\ SetFlag(call[2], FALSE)
     /\ UNCHANGED <<row, timer, crashed>>
  \/ /\ call[1] = "tell"
     /\ TellRow(call[2])
     /\ UNCHANGED <<flag, timer, crashed>>
  \/ /\ call = Disarm
     /\ DisarmTimer
     /\ UNCHANGED <<flag, row>>

\* keep is detached in the server's build: its join returns at once.
Detached(t) == build = "server" /\ t = "keep"

FreeRow(i) ==
  IF row[i].online
    THEN /\ row' = [row EXCEPT ![i].online = FALSE]
         /\ freedRow' = freedRow \cup {i}
    ELSE UNCHANGED <<row, freedRow>>

MainCall(call) ==
  \/ /\ StopCall(call)
     /\ UNCHANGED <<thread, queue, freed, freedRow>>
  \/ /\ call[1] = "set"
     /\ SetFlag(call[2], TRUE)
     /\ UNCHANGED <<thread, timer, queue, row, memory>>
  \/ /\ call[1] = "create"
     /\ thread' = [thread EXCEPT ![call[2]] =
                     IF call[2] = "connect" THEN "reading" ELSE "running"]
     /\ UNCHANGED <<flag, timer, queue, row, memory>>
  \/ /\ call = Arm
     /\ timer' = "armed"
     /\ UNCHANGED <<flag, thread, queue, row, memory>>
  \/ /\ call[1] = "join"
     /\ thread[call[2]] = "ended" \/ Detached(call[2])
     /\ UNCHANGED <<flag, thread, timer, queue, row, memory>>
  \/ /\ call[1] = "deinit"
     /\ freed' = freed \cup {call[2]}
     /\ queue' = IF call[2] = "msg" THEN <<>> ELSE queue
     /\ UNCHANGED <<flag, thread, timer, row, freedRow, crashed>>
  \/ /\ call[1] = "free"
     /\ FreeRow(call[2])
     /\ UNCHANGED <<flag, thread, timer, queue, freed, crashed>>
  \/ /\ call = Exit
     /\ UNCHANGED <<flag, thread, timer, queue, row, memory>>

Main ==
  /\ Alive
  /\ MainCall(Calls[build][main])
  /\ main' = After(Calls[build][main], main)
  /\ UNCHANGED <<build, stop, worker>>

-----------------------------------------------------------------------------
(* The threads.                                                            *)

Become(t, state) == thread' = [thread EXCEPT ![t] = state]

\* The client's commit thread tests connect_flag, not its own.
Loops(t) == IF t = "commit" THEN flag["connect"] ELSE flag[t]

\* What the loop waits for without a time limit: the app thread for a message,
\* recive for the serial port, connect for the server (the first time in
\* connect, before it tests its flag).  mng waits for 0.1 s at most.
Reads(t) == t \in {"app", "recive", "connect", "mng"}
Sends(t) == t \in {"handle", "commit"}

\* The test of the flag, and the loop's body up to where it blocks.  A pass
\* that sends nothing, or what msgsnd refuses for its type, changes nothing.
Loop(t) ==
  /\ Alive /\ thread[t] = "running"
  /\ IF ~Loops(t) THEN Become(t, "ended")
     ELSE \/ Reads(t) /\ Become(t, "reading")
          \/ Sends(t) /\ Become(t, "sending")
  /\ UNCHANGED <<process, flag, timer, queue, table, memory>>

\* The serial port or the server has something.
Input(t) ==
  /\ Alive /\ t \in {"recive", "connect"} /\ thread[t] = "reading"
  /\ Become(t, "running")
  /\ UNCHANGED <<process, flag, timer, queue, table, memory>>

MutantMsgSend ==
  \/ \E m \in Sendable(build) : queue' = Append(queue, m)
  \/ "msg" \in freed /\ UNCHANGED queue

\* msgsnd waits while the queue is full, and fails when it was removed.
MsgSend ==
  \/ /\ Len(queue) < QueueCap /\ "msg" \notin freed
     /\ \E m \in Sendable(build) : queue' = Append(queue, m)
  \/ "msg" \in freed /\ UNCHANGED queue

Send(t) ==
  /\ Alive /\ thread[t] = "sending"
  /\ MsgSend
  /\ Become(t, "running")
  /\ UNCHANGED <<process, flag, timer, table, memory>>

\* msg_recive and app_process.
AppReceive ==
  /\ Alive /\ thread["app"] = "reading" /\ queue # <<>>
  /\ queue' = Tail(queue)
  /\ IF Head(queue) = "quit"
       THEN Become("app", "stopping") /\ stop' = 1
       ELSE Become("app", "running") /\ stop' = stop
  /\ UNCHANGED <<build, main, flag, timer, table, memory>>

AppStop ==
  /\ Alive /\ thread["app"] = "stopping"
  /\ StopCall(Stop[build][stop])
  /\ stop' = After(Stop[build][stop], stop)
  /\ Become("app", IF stop = Len(Stop[build]) THEN "running" ELSE "stopping")
  /\ UNCHANGED <<build, main, queue, worker, freed, freedRow>>

-----------------------------------------------------------------------------
(* The server's rows and their commit threads.                             *)

\* The rest of a pass of mng: no client comes, or one gets a row and a thread.
Serve ==
  /\ Alive /\ thread["mng"] = "reading"
  /\ Become("mng", "running")
  /\ \/ UNCHANGED table
     \/ \E i \in Row :
          /\ ~row[i].online
          /\ row' = [row EXCEPT ![i] = [online |-> TRUE, commit |-> TRUE]]
          /\ worker' = [worker EXCEPT ![i] = IF @ = "sending" THEN @ ELSE "running"]
  /\ UNCHANGED <<process, flag, timer, queue, memory>>

\* mng or keep deletes a client.
DeleteClient ==
  /\ Alive /\ build = "server"
  /\ thread["mng"] = "reading" \/ thread["keep"] = "running"
  /\ \E i \in Row :
       /\ row[i].online
       /\ row' = [row EXCEPT ![i] = [online |-> FALSE, commit |-> FALSE]]
  /\ UNCHANGED <<process, flag, thread, timer, queue, worker, memory>>

Work(i) ==
  /\ Alive /\ worker[i] = "running"
  /\ worker' = [worker EXCEPT ![i] = IF row[i].commit THEN "sending" ELSE "ended"]
  /\ UNCHANGED <<process, flag, thread, timer, queue, row, memory>>

WorkerSend(i) ==
  /\ Alive /\ worker[i] = "sending"
  /\ MsgSend
  /\ worker' = [worker EXCEPT ![i] = "running"]
  /\ UNCHANGED <<process, flag, thread, timer, row, memory>>

\* A row that was filled again before its thread had ended has two.
OtherSends ==
  /\ Alive
  /\ \E i \in Row : worker[i] # "none"
  /\ MsgSend
  /\ UNCHANGED <<process, flag, thread, timer, table, memory>>

\* A detached thread runs on while main frees what it uses: the fifo and the
\* parser of its row, and tcp_server, which is NULL at last.
UseFreed ==
  /\ Alive
  /\ freedRow # {} \/ "inet" \in freed
  /\ \/ thread["keep"] = "running"
     \/ \E i \in Row : worker[i] \in {"running", "sending"}
  /\ crashed' = TRUE
  /\ UNCHANGED <<process, flag, thread, timer, queue, table, freed, freedRow>>

Next ==
  \/ Main \/ AppReceive \/ AppStop
  \/ Serve \/ DeleteClient \/ OtherSends \/ UseFreed
  \/ \E t \in AllThreads : Loop(t) \/ Input(t) \/ Send(t)
  \/ \E i \in Row : Work(i) \/ WorkerSend(i)

Spec == Init /\ [][Next]_vars

\* main, the app thread and mng are scheduled.  Nothing is assumed of the
\* other threads, of the input or of the clients.
FairSpec ==
  /\ Spec
  /\ WF_vars(Main)
  /\ WF_vars(Loop("app") \/ AppReceive \/ AppStop)
  /\ WF_vars(Loop("mng") \/ Serve)

-----------------------------------------------------------------------------
(* Properties.                                                             *)

\* main has started everything and waits for the threads, and the app thread
\* has carried out no command 0.
Settled ==
  /\ stop = 0
  /\ main \in Len(Start[build]) + 1 .. Len(Start[build]) + Len(Joins[build])

\* Once everything is started no thread that main created ends, whatever flag
\* it tests and whichever thread was faster than main before.
ThreadsStay ==
  [][Settled => \A t \in AllThreads : thread'[t] = "ended" => thread[t] = "ended"]_vars

\* What tcp_server_deinit frees belongs to a commit thread that has been told to
\* end: the two loops end at the first offline row, each at a time of its own,
\* with the keep-alive thread deleting rows before, between and in them.
FreedIsTold == \A i \in freedRow : ~row[i].commit

\* A command 0 that comes when everything has been started ends the server's
\* program, with clients that come, go and fill the queue all the while.
StopEndsMain ==
  (stop = 1 /\ main > Len(Start[build])) ~> ~Alive
=============================================================================
