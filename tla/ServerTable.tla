---------------------------- MODULE ServerTable ----------------------------
(***************************************************************************)
(* inet_app/tcp_server/tcp_server.c: the table of clients, and the two     *)
(* threads that change it without a lock.  The managing thread (mng)       *)
(* selects, accepts, fills rows and receives; the keep-alive thread (keep) *)
(* sends heartbeats and reaps rows whose client has been silent too long.  *)
(* Both delete clients with the same code.  A step is one access, or one   *)
(* group of accesses, that the other thread can see.                       *)
(*                                                                         *)
(* serve_fds is one word of memory: FD_SET and FD_CLR load it, change a    *)
(* bit and store it again, in two steps.                                   *)
(*                                                                         *)
(* External parts, modelled as the code uses them: the kernel's sockets    *)
(* (sock, backlog, inbox, ends), the clients (Connect, Send, Leave), the   *)
(* timer signal and the clock (Tick, Expire).  Of the app thread only its  *)
(* answers are here (Answer); the commit threads, which read the rows'     *)
(* fifos, are left out: they change no row but keep_last_time.             *)
(*                                                                         *)
(* overlapped and reaped are history variables: no action reads them.      *)
(*                                                                         *)
(* The definitions named Mutant... are not part of the model: each is the   *)
(* definition that follows it with a mistake in it, and shows which        *)
(* property notices.                                                       *)
(***************************************************************************)
EXTENDS Integers, Sequences

CONSTANTS
  TCP_MAX_CLIENT,  \* the number of rows of mng_client_table
  ListenFd,        \* the listening socket
  NumFds,          \* how many more descriptors the process may open
  Peers,           \* the connections' other ends (IP and port): a client
                   \* that connects again does so as another peer
  NoPeer,          \* no address: memset(&client_addr, 0)
  Talkers,         \* the peers that send anything
  Leavers,         \* the peers that may close or reset their connection
  Silent,          \* the peers that may stop answering heartbeats
  MaxConnects,     \* bound: how often peers connect; 0: any number of times
  TimerIsSlow      \* TRUE: a timer period outlasts a pass of the keep thread

ASSUME TableAssumption == TCP_MAX_CLIENT \in Nat \ {0}
ASSUME FdAssumption == ListenFd \in Nat /\ NumFds \in Nat
ASSUME PeerAssumption == NoPeer \notin Peers /\ Silent \subseteq Peers
                         /\ Talkers \subseteq Peers /\ Leavers \subseteq Peers
ASSUME BoundAssumption == MaxConnects \in Nat
ASSUME TimerAssumption == TimerIsSlow \in BOOLEAN

VARIABLES
  table,         \* mng_client_table
  add_position,  \* the row tried first for the next client
  serve_fds,     \* the descriptors to monitor
  alive_flag,    \* set by the timer, cleared by the keep thread
  exited,        \* "select" after exit(-1), "SIGPIPE" after that signal
  pc,            \* thread |-> where it is
  row,           \* thread |-> its loop's index into the table
  fd,            \* thread |-> the descriptor it is dealing with
  pos,           \* thread |-> the row its client_info_deinit works on
  word,          \* thread |-> serve_fds as it loaded it
  temp_fds,      \* mng: the set given to and returned by select
  max_fd,        \* mng
  a_pos, level, t_addr, \* mng: locals of client_info_init
  got,           \* mng: whose bytes recv put into the buffer
  count,         \* keep: whether a heartbeat was sent in this pass
  swept,         \* keep has completed a pass since the last timer signal
  sock,          \* kernel: descriptor |-> the client at the other end
  backlog,       \* kernel: clients waiting to be accepted, first one first
  inbox,         \* kernel: client |-> bytes waiting to be received
  ends,          \* kernel: client |-> what its end of the connection is
  connects,      \* how often clients have connected, if that is bounded
  overlapped,    \* a client connected while the server had another connection
  reaped         \* the keep thread has found a client silent and deleted it

server == <<table, add_position, serve_fds, alive_flag, exited>>
mngvars == <<temp_fds, max_fd, a_pos, level, t_addr, got>>
keepvars == <<count, swept, reaped>>
threadvars == <<pc, row, fd, pos, word>>
kernel == <<sock, backlog, inbox, ends, connects, overlapped>>
vars == <<server, threadvars, mngvars, keepvars, kernel>>

Rows == 0 .. TCP_MAX_CLIENT - 1
Fds == ListenFd + 1 .. ListenFd + NumFds
Threads == {"mng", "keep"}

\* What recv leaves in the buffer when it fails but its caller is told a
\* positive length (the end of recv_data_client without a return).
Garbage == "garbage"

\* A row of the table: mng_clients_info_t.  s_fifo says that the fifo (and the
\* HIP parser) are initialised, expired that keep_last_time is at least
\* keep_max_time seconds ago.
Row == [client_fd: Fds \cup {-1}, is_online: BOOLEAN, commit_flag: BOOLEAN,
        client_addr: Peers \cup {NoPeer}, s_fifo: BOOLEAN, expired: BOOLEAN]

\* The other end of a connection: open; fin: it was closed; reset: it was
\* reset and the error not yet reported; dead: the error was reported, or the
\* closed end has answered a message with a reset.
Ends == {"open", "fin", "reset", "dead"}

DeleteLabels == {"find", "position", "decrement", "close", "offline", "free"}
ClearLabels == {"clear", "unset"}
MngLabels == {"copy", "select", "accept", "probe", "fill", "online", "init",
              "load", "set", "scan", "test", "recv", "store", "outside"}
             \cup ClearLabels \cup DeleteLabels
KeepLabels == {"begin", "row", "reap", "beat", "reread"}
              \cup ClearLabels \cup DeleteLabels

ServerOK ==
  /\ add_position \in Rows \cup {-1}
  /\ serve_fds \subseteq Fds \cup {ListenFd}
  /\ alive_flag \in BOOLEAN /\ exited \in {"no", "select", "SIGPIPE"}

ThreadsOK ==
  /\ pc \in [Threads -> MngLabels \cup KeepLabels]
  /\ pc["mng"] \in MngLabels /\ pc["keep"] \in KeepLabels
  /\ row \in [Threads -> 0 .. TCP_MAX_CLIENT]
  /\ fd \in [Threads -> Fds \cup {-1}]
  /\ pos \in [Threads -> Rows]
  /\ word \in [Threads -> SUBSET (Fds \cup {ListenFd})]

LoopsOK ==
  /\ temp_fds \subseteq Fds \cup {ListenFd}
  /\ max_fd \in Int
  /\ a_pos \in Rows /\ level \in 0 .. TCP_MAX_CLIENT + 1
  /\ t_addr \in Peers \cup {NoPeer} /\ got \in Peers \cup {NoPeer, Garbage}
  /\ count \in BOOLEAN /\ swept \in BOOLEAN /\ reaped \in BOOLEAN

KernelOK ==
  /\ sock \in [Fds -> Peers \cup {NoPeer}]
  /\ backlog \in Seq(Peers)
  /\ inbox \in [Peers -> BOOLEAN]
  /\ ends \in [Peers -> Ends] /\ connects \in 0 .. MaxConnects
  /\ overlapped \in BOOLEAN

TypeOK ==
  table \in [Rows -> Row] /\ ServerOK /\ ThreadsOK /\ LoopsOK /\ KernelOK

\* client_table_init, tcp_server_init, the start of both threads.  The timer's
\* first signal comes at once (TIMER_ABSTIME, and the time is long past).
Init ==
  /\ table = [i \in Rows |-> [client_fd |-> -1, is_online |-> FALSE,
                              commit_flag |-> FALSE, client_addr |-> NoPeer,
                              s_fifo |-> FALSE, expired |-> TRUE]]
  /\ add_position = 0
  /\ serve_fds = {ListenFd}
  /\ alive_flag = TRUE /\ exited = "no"
  /\ pc = [t \in Threads |-> IF t = "mng" THEN "copy" ELSE "begin"]
  /\ row = [t \in Threads |-> 0]
  /\ fd = [t \in Threads |-> -1]
  /\ pos = [t \in Threads |-> 0] /\ word = [t \in Threads |-> {}]
  /\ temp_fds = {} /\ max_fd = ListenFd
  /\ a_pos = 0 /\ level = 0 /\ t_addr = NoPeer /\ got = NoPeer
  /\ count = FALSE /\ swept = TRUE
  /\ sock = [f \in Fds |-> NoPeer]
  /\ backlog = <<>>
  /\ inbox = [p \in Peers |-> FALSE]
  /\ ends = [p \in Peers |-> "open"] /\ connects = 0
  /\ overlapped = FALSE /\ reaped = FALSE

-----------------------------------------------------------------------------
(* The kernel.                                                             *)

Closed(f) == f \in Fds /\ sock[f] = NoPeer

\* accept takes the lowest free descriptor.
LowestFree(f) ==
  /\ sock[f] = NoPeer
  /\ \A g \in Fds : sock[g] = NoPeer => f <= g

\* Readable: a client waits, bytes wait, or the other end is not open.
Readable(f) ==
  IF f = ListenFd
    THEN backlog # <<>>
    ELSE sock[f] # NoPeer /\ (inbox[sock[f]] \/ ends[sock[f]] # "open")

\* A client has a connection, accepted or not.
Connected(p) ==
  \/ \E f \in Fds : sock[f] = p
  \/ \E k \in 1 .. Len(backlog) : backlog[k] = p

\* send on a descriptor: nothing comes of a closed one; a closed end may answer
\* with a reset; the error of a reset is reported once, and the next send after
\* it raises SIGPIPE, which nobody catches.
SendOn(f) ==
  LET p == IF f \in Fds THEN sock[f] ELSE NoPeer
  IN  IF p = NoPeer THEN UNCHANGED <<ends, exited>>
      ELSE \/ ends[p] = "open" /\ UNCHANGED <<ends, exited>>
           \/ ends[p] = "fin" /\ UNCHANGED <<ends, exited>>
           \/ /\ ends[p] \in {"fin", "reset"}
              /\ ends' = [ends EXCEPT ![p] = "dead"]
              /\ UNCHANGED exited
           \/ ends[p] = "dead" /\ exited' = "SIGPIPE" /\ UNCHANGED ends

-----------------------------------------------------------------------------
(* mng_thread_fun: the loop around select.                                 *)

Running == exited = "no"
At(t, label) == Running /\ pc[t] = label
Goto(t, label) == pc' = [pc EXCEPT ![t] = label]

CopyFds ==
  /\ At("mng", "copy")
  /\ temp_fds' = serve_fds
  /\ Goto("mng", "select")
  /\ UNCHANGED <<server, row, fd, pos, word, max_fd, a_pos, level, t_addr, got,
                 keepvars, kernel>>

MutantSelect ==
  /\ At("mng", "select")
  /\ LET watched == {f \in temp_fds : f < max_fd}
     IN  IF \E f \in watched : Closed(f)
           THEN /\ exited' = "select"
                /\ UNCHANGED <<pc, temp_fds>>
           ELSE /\ temp_fds' = {f \in watched : Readable(f)}
                /\ Goto("mng", "accept")
                /\ UNCHANGED exited
  /\ UNCHANGED <<table, add_position, serve_fds, alive_flag, row, fd, pos, word,
                 max_fd, a_pos, level, t_addr, got, keepvars, kernel>>

\* A closed descriptor makes select fail (EBADF), and the program exits.
\* select looks at no descriptor above max_fd and never waits (time_out 0).
Select ==
  /\ At("mng", "select")
  /\ LET watched == {f \in temp_fds : f <= max_fd}
     IN  IF \E f \in watched : Closed(f)
           THEN /\ exited' = "select"
                /\ UNCHANGED <<pc, temp_fds>>
           ELSE /\ temp_fds' = {f \in watched : Readable(f)}
                /\ Goto("mng", "accept")
                /\ UNCHANGED exited
  /\ UNCHANGED <<table, add_position, serve_fds, alive_flag, row, fd, pos, word,
                 max_fd, a_pos, level, t_addr, got, keepvars, kernel>>

\* distinguish_client: a row before the first offline one has this address.
IsOldClient(p) ==
  \E i \in Rows : /\ \A j \in 0 .. i : table[j].is_online
                  /\ table[i].client_addr = p

\* accept_client and distinguish_client.  Nothing to accept, or accept fails:
\* recive_data_clients comes next, with row 0.  (Where accept_client ends
\* without a return the build, which does not optimise, leaves the 0 of
\* FD_ISSET as its value.)  What a client_info_init does that starts outside
\* the table is undefined and not followed.
Accept ==
  /\ At("mng", "accept")
  /\ IF ListenFd \in temp_fds /\ backlog # <<>> /\ \E f \in Fds : LowestFree(f)
       THEN /\ \E f \in Fds :
                 /\ LowestFree(f)
                 /\ sock' = [sock EXCEPT ![f] = Head(backlog)]
                 /\ fd' = [fd EXCEPT !["mng"] = f]
            /\ backlog' = Tail(backlog)
            /\ t_addr' = Head(backlog)
            /\ a_pos' = IF add_position \in Rows THEN add_position ELSE 0
            /\ level' = 0
            /\ Goto("mng", IF IsOldClient(Head(backlog)) THEN "scan"
                           ELSE IF add_position \in Rows THEN "probe"
                           ELSE "outside")
       ELSE /\ Goto("mng", "scan")
            /\ UNCHANGED <<fd, a_pos, level, t_addr, sock, backlog>>
  /\ row' = [row EXCEPT !["mng"] = 0]
  /\ UNCHANGED <<server, pos, word, temp_fds, max_fd, got, keepvars, inbox,
                 ends, connects, overlapped>>

-----------------------------------------------------------------------------
(* client_info_init.                                                       *)

MutantProbe ==
  /\ At("mng", "probe")
  /\ level' = level + 1
  /\ Goto("mng", "fill")
  /\ UNCHANGED <<server, row, fd, pos, word, temp_fds, max_fd, a_pos, t_addr, got,
                 keepvars, kernel>>

\* while (level++ < TCP_MAX_CLIENT): the row found by the last probe is
\* treated like no row at all, because level has then reached the limit.
Probe ==
  /\ At("mng", "probe")
  /\ level' = level + 1
  /\ IF level < TCP_MAX_CLIENT /\ table[a_pos].is_online
       THEN /\ a_pos' = (a_pos + 1) % TCP_MAX_CLIENT
            /\ UNCHANGED pc
       ELSE /\ Goto("mng", IF level' >= TCP_MAX_CLIENT THEN "load" ELSE "fill")
            /\ UNCHANGED a_pos
  /\ UNCHANGED <<server, row, fd, pos, word, temp_fds, max_fd, t_addr, got,
                 keepvars, kernel>>

\* keep_last_time, add_position and client_fd, of a row still offline.
Fill ==
  /\ At("mng", "fill")
  /\ add_position' = a_pos
  /\ table' = [table EXCEPT ![a_pos] = [@ EXCEPT !.client_fd = fd["mng"],
                                                 !.expired = FALSE]]
  /\ Goto("mng", "online")
  /\ UNCHANGED <<serve_fds, alive_flag, exited, row, fd, pos, word, mngvars,
                 keepvars, kernel>>

\* is_online, commit_flag and client_addr.
GoOnline ==
  /\ At("mng", "online")
  /\ table' = [table EXCEPT ![a_pos] = [@ EXCEPT !.is_online = TRUE,
                 !.commit_flag = TRUE, !.client_addr = t_addr]]
  /\ Goto("mng", "init")
  /\ UNCHANGED <<add_position, serve_fds, alive_flag, exited, row, fd, pos, word,
                 mngvars, keepvars, kernel>>

MutantInitFifo ==
  /\ At("mng", "init")
  /\ Goto("mng", "load")
  /\ UNCHANGED <<server, row, fd, pos, word, mngvars, keepvars, kernel>>

\* hip_init and buffer_fifo_init, of a row the keep thread already sees online;
\* then the commit thread is created.
InitFifo ==
  /\ At("mng", "init")
  /\ table' = [table EXCEPT ![a_pos] = [@ EXCEPT !.s_fifo = TRUE]]
  /\ Goto("mng", "load")
  /\ UNCHANGED <<add_position, serve_fds, alive_flag, exited, row, fd, pos, word,
                 mngvars, keepvars, kernel>>

\* FD_SET: the caller monitors the descriptor whatever client_info_init
\* returned, so also when the table was full.
LoadToSet ==
  /\ At("mng", "load")
  /\ word' = [word EXCEPT !["mng"] = serve_fds]
  /\ Goto("mng", "set")
  /\ UNCHANGED <<server, row, fd, pos, mngvars, keepvars, kernel>>

Set ==
  /\ At("mng", "set")
  /\ serve_fds' = word["mng"] \cup {fd["mng"]}
  /\ word' = [word EXCEPT !["mng"] = {}]
  /\ max_fd' = IF fd["mng"] > max_fd THEN fd["mng"] ELSE max_fd
  /\ Goto("mng", "scan")
  /\ a_pos' = 0 /\ level' = 0 /\ t_addr' = NoPeer
  /\ UNCHANGED <<table, add_position, alive_flag, exited, row, fd, pos, temp_fds,
                 got, keepvars, kernel>>

-----------------------------------------------------------------------------
(* recive_data_clients.                                                    *)

\* The next row: its descriptor is read first, whether it is online after.
Scan ==
  /\ At("mng", "scan")
  /\ IF row["mng"] = TCP_MAX_CLIENT
       THEN /\ Goto("mng", "copy")
            /\ row' = [row EXCEPT !["mng"] = 0]
            /\ fd' = [fd EXCEPT !["mng"] = -1]
            /\ temp_fds' = {}
       ELSE /\ fd' = [fd EXCEPT !["mng"] = table[row["mng"]].client_fd]
            /\ Goto("mng", "test")
            /\ UNCHANGED <<row, temp_fds>>
  /\ UNCHANGED <<server, pos, word, max_fd, a_pos, level, t_addr, got, keepvars,
                 kernel>>

MutantTestOnline ==
  /\ At("mng", "test")
  /\ IF table[row["mng"]].is_online
       THEN Goto("mng", "recv") /\ UNCHANGED row
       ELSE Goto("mng", "scan") /\ row' = [row EXCEPT !["mng"] = @ + 1]
  /\ UNCHANGED <<server, fd, pos, word, mngvars, keepvars, kernel>>

\* Online, and the descriptor in the set that select returned.
TestOnline ==
  /\ At("mng", "test")
  /\ IF table[row["mng"]].is_online /\ fd["mng"] \in temp_fds
       THEN Goto("mng", "recv") /\ UNCHANGED row
       ELSE Goto("mng", "scan") /\ row' = [row EXCEPT !["mng"] = @ + 1]
  /\ UNCHANGED <<server, fd, pos, word, mngvars, keepvars, kernel>>

\* recv_data_client returned a length: the buffer goes to the row's fifo.
Received(src) ==
  /\ got' = src
  /\ Goto("mng", "store")
  /\ UNCHANGED row

\* It returned 0, for a client that left.
EndOfFile == Goto("mng", "clear") /\ UNCHANGED <<row, got>>

\* It returned a negative number.
Skip ==
  /\ row' = [row EXCEPT !["mng"] = @ + 1]
  /\ Goto("mng", "scan")
  /\ UNCHANGED got

\* It returned an error's leftover.
AnyLength == Received(Garbage) \/ EndOfFile \/ Skip

MutantRecv ==
  /\ At("mng", "recv")
  /\ LET p == sock[fd["mng"]]
     IN  IF p # NoPeer /\ inbox[p]
           THEN /\ Received(p)
                /\ inbox' = [inbox EXCEPT ![p] = FALSE]
           ELSE /\ UNCHANGED inbox
                /\ \/ Skip
                   \/ Received(Garbage)
  /\ UNCHANGED <<server, fd, pos, word, temp_fds, max_fd, a_pos, level, t_addr,
                 keepvars, sock, backlog, ends, connects, overlapped>>

\* recv_data_client.  With nothing to read it runs off its end with errno
\* (EWOULDBLOCK, 11) as its value, a length; after another error (the
\* descriptor is closed, or the connection was reset) with whatever perror
\* left behind: a length, 0 or a negative number.
Recv ==
  /\ At("mng", "recv")
  /\ LET p == sock[fd["mng"]]
     IN  IF p = NoPeer
           THEN AnyLength /\ UNCHANGED <<inbox, ends>>
         ELSE IF inbox[p]
           THEN /\ Received(p)
                /\ inbox' = [inbox EXCEPT ![p] = FALSE]
                /\ UNCHANGED ends
         ELSE IF ends[p] = "reset"
           THEN /\ AnyLength
                /\ ends' = [ends EXCEPT ![p] = "dead"]
                /\ UNCHANGED inbox
         ELSE IF ends[p] = "open"
           THEN Received(Garbage) /\ UNCHANGED <<inbox, ends>>
           ELSE EndOfFile /\ UNCHANGED <<inbox, ends>>
  /\ UNCHANGED <<server, fd, pos, word, temp_fds, max_fd, a_pos, level, t_addr,
                 keepvars, sock, backlog, connects, overlapped>>

\* write_data_c_fifo.  (A fifo that was freed has size_mark 0, is full, and
\* drops the bytes.)  The fifo itself is RingFifo's.
Store ==
  /\ At("mng", "store")
  /\ got' = NoPeer
  /\ row' = [row EXCEPT !["mng"] = @ + 1]
  /\ Goto("mng", "scan")
  /\ UNCHANGED <<server, fd, pos, word, temp_fds, max_fd, a_pos, level, t_addr,
                 keepvars, kernel>>

-----------------------------------------------------------------------------
(* FD_CLR(fd), run by either thread: by mng before it deletes a client, by  *)
(* keep after.                                                             *)

LoadToClear(t) ==
  /\ At(t, "clear")
  /\ word' = [word EXCEPT ![t] = serve_fds]
  /\ Goto(t, "unset")
  /\ UNCHANGED <<server, row, fd, pos, mngvars, keepvars, kernel>>

MutantUnset(t) ==
  /\ At(t, "unset")
  /\ word' = [word EXCEPT ![t] = {}]
  /\ IF t = "mng"
       THEN /\ max_fd' = IF max_fd <= fd[t] THEN max_fd - 1 ELSE max_fd
            /\ Goto(t, "find")
            /\ UNCHANGED <<row, fd>>
       ELSE /\ fd' = [fd EXCEPT ![t] = -1]
            /\ row' = [row EXCEPT ![t] = @ + 1]
            /\ Goto(t, "row")
            /\ UNCHANGED max_fd
  /\ UNCHANGED <<table, add_position, serve_fds, alive_flag, exited, pos, temp_fds,
                 a_pos, level, t_addr, got, keepvars, kernel>>

MutantUnsetAll(t) ==
  /\ At(t, "unset")
  /\ serve_fds' = {}
  /\ word' = [word EXCEPT ![t] = {}]
  /\ IF t = "mng"
       THEN /\ max_fd' = IF max_fd <= fd[t] THEN max_fd - 1 ELSE max_fd
            /\ Goto(t, "find")
            /\ UNCHANGED <<row, fd>>
       ELSE /\ fd' = [fd EXCEPT ![t] = -1]
            /\ row' = [row EXCEPT ![t] = @ + 1]
            /\ Goto(t, "row")
            /\ UNCHANGED max_fd
  /\ UNCHANGED <<table, add_position, alive_flag, exited, pos, temp_fds, a_pos,
                 level, t_addr, got, keepvars, kernel>>

\* Whatever the other thread stored since the load is lost.
Unset(t) ==
  /\ At(t, "unset")
  /\ serve_fds' = word[t] \ {fd[t]}
  /\ word' = [word EXCEPT ![t] = {}]
  /\ IF t = "mng"
       THEN /\ max_fd' = IF max_fd <= fd[t] THEN max_fd - 1 ELSE max_fd
            /\ Goto(t, "find")
            /\ UNCHANGED <<row, fd>>
       ELSE /\ fd' = [fd EXCEPT ![t] = -1]
            /\ row' = [row EXCEPT ![t] = @ + 1]
            /\ Goto(t, "row")
            /\ UNCHANGED max_fd
  /\ UNCHANGED <<table, add_position, alive_flag, exited, pos, temp_fds, a_pos,
                 level, t_addr, got, keepvars, kernel>>

ClearFd(t) == LoadToClear(t) \/ Unset(t)

-----------------------------------------------------------------------------
(* delete_client and client_info_deinit, run by either thread.             *)

\* Where the caller goes on: mng with the next row, keep at its FD_CLR.
Return(t) ==
  /\ Goto(t, IF t = "mng" THEN "scan" ELSE "reread")
  /\ row' = IF t = "mng" THEN [row EXCEPT ![t] = @ + 1] ELSE row

\* The first row that has the descriptor, online or not.
FirstRowWith(f, i) ==
  /\ table[i].client_fd = f
  /\ \A j \in 0 .. i - 1 : table[j].client_fd # f

Find(t) ==
  /\ At(t, "find")
  /\ \/ /\ \E i \in Rows : /\ FirstRowWith(fd[t], i)
                           /\ pos' = [pos EXCEPT ![t] = i]
        /\ Goto(t, "position")
        /\ UNCHANGED row
     \/ /\ \A i \in Rows : table[i].client_fd # fd[t]
        /\ Return(t)
        /\ UNCHANGED pos
  /\ UNCHANGED <<server, fd, word, mngvars, keepvars, kernel>>

MutantTestPosition(t) ==
  /\ At(t, "position")
  /\ IF add_position = pos[t]
       THEN Goto(t, "decrement") /\ UNCHANGED add_position
       ELSE Goto(t, "close") /\ add_position' = pos[t]
  /\ UNCHANGED <<table, serve_fds, alive_flag, exited, row, fd, pos, word,
                 mngvars, keepvars, kernel>>

TestPosition(t) ==
  /\ At(t, "position")
  /\ IF add_position = pos[t] /\ pos[t] > 0
       THEN Goto(t, "decrement") /\ UNCHANGED add_position
       ELSE Goto(t, "close") /\ add_position' = pos[t]
  /\ UNCHANGED <<table, serve_fds, alive_flag, exited, row, fd, pos, word,
                 mngvars, keepvars, kernel>>

\* The other thread may have changed it since it was tested.
Decrement(t) ==
  /\ At(t, "decrement")
  /\ add_position' = add_position - 1
  /\ Goto(t, "close")
  /\ UNCHANGED <<table, serve_fds, alive_flag, exited, row, fd, pos, word,
                 mngvars, keepvars, kernel>>

\* close of a descriptor that is not open fails and is ignored.
Close(t) ==
  /\ At(t, "close")
  /\ LET f == table[pos[t]].client_fd
         gone == {sock[g] : g \in {f} \cap Fds}
     IN  /\ sock' = [g \in Fds |-> IF g = f THEN NoPeer ELSE sock[g]]
         /\ inbox' = [p \in Peers |-> inbox[p] /\ p \notin gone]
         /\ ends' = [p \in Peers |-> IF p \in gone THEN "open" ELSE ends[p]]
  /\ Goto(t, "offline")
  /\ UNCHANGED <<server, row, fd, pos, word, mngvars, keepvars, backlog, connects,
                 overlapped>>

MutantOffline(t) ==
  /\ At(t, "offline")
  /\ Goto(t, "free")
  /\ UNCHANGED <<server, row, fd, pos, word, mngvars, keepvars, kernel>>

\* client_fd keeps its value.
Offline(t) ==
  /\ At(t, "offline")
  /\ table' = [table EXCEPT ![pos[t]] = [@ EXCEPT !.is_online = FALSE]]
  /\ Goto(t, "free")
  /\ UNCHANGED <<add_position, serve_fds, alive_flag, exited, row, fd, pos, word,
                 mngvars, keepvars, kernel>>

\* commit_flag, client_addr, buffer_fifo_deinit, hip_deinit, keep_last_time = 0,
\* of a row that may be taken for a new client by now.
Free(t) ==
  /\ At(t, "free")
  /\ table' = [table EXCEPT ![pos[t]] = [@ EXCEPT !.commit_flag = FALSE,
                 !.client_addr = NoPeer, !.s_fifo = FALSE, !.expired = TRUE]]
  /\ pos' = [pos EXCEPT ![t] = 0]
  /\ Return(t)
  /\ UNCHANGED <<add_position, serve_fds, alive_flag, exited, fd, word, mngvars,
                 keepvars, kernel>>

Delete(t) == \/ Find(t) \/ TestPosition(t) \/ Decrement(t)
             \/ Close(t) \/ Offline(t) \/ Free(t)

-----------------------------------------------------------------------------
(* keep_alive_thread_fun and check_alive.                                  *)

MutantBeginPass ==
  /\ At("keep", "begin")
  /\ count' = FALSE
  /\ Goto("keep", "row")
  /\ UNCHANGED <<server, row, fd, pos, word, mngvars, swept, reaped, kernel>>

BeginPass ==
  /\ At("keep", "begin")
  /\ count' = FALSE
  /\ row' = [row EXCEPT !["keep"] = 0]
  /\ Goto("keep", "row")
  /\ UNCHANGED <<server, fd, pos, word, mngvars, swept, reaped, kernel>>

\* i < TCP_MAX_CLIENT & alive_flag: the pass ends, and a pass that sent a
\* heartbeat clears the flag.
EndPass ==
  /\ At("keep", "row")
  /\ row["keep"] = TCP_MAX_CLIENT \/ ~alive_flag
  /\ alive_flag' = (alive_flag /\ ~count)
  /\ swept' = TRUE
  /\ Goto("keep", "begin")
  /\ UNCHANGED <<table, add_position, serve_fds, exited, row, fd, pos, word,
                 mngvars, count, reaped, kernel>>

\* An offline row is skipped, a silent client is deleted, any other one is
\* sent a heartbeat.
CheckRow ==
  /\ At("keep", "row")
  /\ row["keep"] # TCP_MAX_CLIENT /\ alive_flag
  /\ LET r == table[row["keep"]]
     IN  /\ Goto("keep", IF r.is_online /\ r.expired THEN "reap"
                         ELSE IF r.is_online THEN "beat" ELSE "row")
         /\ row' = IF r.is_online THEN row
                   ELSE [row EXCEPT !["keep"] = @ + 1]
         /\ reaped' = (reaped \/ (r.is_online /\ r.expired))
  /\ UNCHANGED <<server, fd, pos, word, mngvars, count, swept, kernel>>

\* delete_client(table[i].client_fd): the descriptor is read only now.
Reap ==
  /\ At("keep", "reap")
  /\ fd' = [fd EXCEPT !["keep"] = table[row["keep"]].client_fd]
  /\ Goto("keep", "find")
  /\ UNCHANGED <<server, row, pos, word, mngvars, keepvars, kernel>>

\* FD_CLR(table[i].client_fd): it is read again after the deletion.
Reread ==
  /\ At("keep", "reread")
  /\ fd' = [fd EXCEPT !["keep"] = table[row["keep"]].client_fd]
  /\ Goto("keep", "clear")
  /\ UNCHANGED <<server, row, pos, word, mngvars, keepvars, kernel>>

\* The heartbeat, sent with what the row has for a descriptor by now.
Beat ==
  /\ At("keep", "beat")
  /\ SendOn(table[row["keep"]].client_fd)
  /\ count' = TRUE
  /\ row' = [row EXCEPT !["keep"] = @ + 1]
  /\ Goto("keep", "row")
  /\ UNCHANGED <<table, add_position, serve_fds, alive_flag, fd, pos, word,
                 mngvars, swept, reaped, sock, backlog, inbox, connects, overlapped>>

-----------------------------------------------------------------------------
(* The app thread, the timer, the clock and the clients.                   *)

\* tcp_server_send by the app thread: the answer to something a client sent.
Answer(f) ==
  /\ Running /\ sock[f] \in Talkers
  /\ SendOn(f)
  /\ UNCHANGED <<table, add_position, serve_fds, alive_flag, threadvars, mngvars,
                 keepvars, sock, backlog, inbox, connects, overlapped>>

\* handle_alive_fun.
Tick ==
  /\ Running
  /\ TimerIsSlow => swept
  /\ alive_flag' = ~alive_flag
  /\ swept' = FALSE
  /\ UNCHANGED <<table, add_position, serve_fds, exited, threadvars, mngvars,
                 count, reaped, kernel>>

\* The row's client does not answer heartbeats: it stopped to, or the row's
\* connection is not that client's, or it left and its descriptor is not
\* monitored.  (A client whose leaving select can report is dropped in the
\* next round, ten seconds before its row expires.)
Unanswered(r) ==
  \/ r.client_addr \in Silent
  \/ /\ r.client_fd \notin Fds \/ sock[r.client_fd] # r.client_addr
        \/ (ends[r.client_addr] # "open" /\ r.client_fd \notin serve_fds)
     /\ pc["mng"] = "copy" /\ pc["keep"] \notin DeleteLabels

\* keep_max_time seconds without a heartbeat.
Expire(i) ==
  /\ Running /\ table[i].is_online /\ ~table[i].expired
  /\ Unanswered(table[i])
  /\ table' = [table EXCEPT ![i] = [@ EXCEPT !.expired = TRUE]]
  /\ UNCHANGED <<add_position, serve_fds, alive_flag, exited, threadvars, mngvars,
                 keepvars, kernel>>

\* An address connects again only when its last connection is gone; another one
\* connects whatever the server has noticed of those before.
Connect(p) ==
  /\ Running /\ ~Connected(p)
  /\ IF MaxConnects = 0 THEN UNCHANGED connects
     ELSE connects < MaxConnects /\ connects' = connects + 1
  /\ backlog' = Append(backlog, p)
  /\ overlapped' = (overlapped \/ \E q \in Peers : Connected(q))
  /\ UNCHANGED <<server, threadvars, mngvars, keepvars, sock, inbox, ends>>

Send(p) ==
  /\ p \in Talkers
  /\ Running /\ Connected(p) /\ ends[p] = "open" /\ ~inbox[p]
  /\ inbox' = [inbox EXCEPT ![p] = TRUE]
  /\ UNCHANGED <<server, threadvars, mngvars, keepvars, sock, backlog, ends,
                 connects, overlapped>>

\* The client closes its end; with data it has not read, that is a reset.
Leave(p, how) ==
  /\ p \in Leavers
  /\ Running /\ Connected(p) /\ ends[p] = "open"
  /\ ends' = [ends EXCEPT ![p] = how]
  /\ UNCHANGED <<server, threadvars, mngvars, keepvars, sock, backlog, inbox,
                 connects, overlapped>>

-----------------------------------------------------------------------------
Mng == \/ CopyFds \/ Select \/ Accept \/ Probe \/ Fill \/ GoOnline \/ InitFifo
       \/ LoadToSet \/ Set \/ Scan \/ TestOnline \/ Recv \/ Store
       \/ ClearFd("mng") \/ Delete("mng")

Keep == \/ BeginPass \/ CheckRow \/ EndPass \/ Reap \/ Reread \/ Beat
        \/ ClearFd("keep") \/ Delete("keep")

Environment ==
  \/ Tick
  \/ \E i \in Rows : Expire(i)
  \/ \E f \in Fds : Answer(f)
  \/ \E p \in Peers : Connect(p) \/ Send(p) \/ Leave(p, "fin") \/ Leave(p, "reset")

Next == Mng \/ Keep \/ Environment

Spec == Init /\ [][Next]_vars

\* Both threads loop without ever blocking (select does not wait, the keep
\* thread never sleeps), and the timer fires every two seconds.
FairSpec == Spec /\ WF_vars(Mng) /\ WF_vars(Keep) /\ WF_vars(Tick)

-----------------------------------------------------------------------------
(* Properties.                                                             *)

\* The row taken for a new client is free when it is overwritten, although
\* the keep thread changes the table between the probe and the assignments.
FillsFreeRow ==
  pc["mng"] \in {"fill", "online"} => ~table[a_pos].is_online

\* The program never leaves through the failed select (exit(-1)).
SelectNeverFails == exited # "select"

\* However many clients come, leave, overlap or reset their connections: select
\* fails only on a server whose keep thread has deleted a client.  The managing
\* thread alone never leaves a closed descriptor in the monitored set, although
\* its deletions may hit a wrong row.
OnlyReapingFailsSelect == exited = "select" => reaped

\* An online row has a fifo once client_info_init is through with it (which the
\* keep thread need not wait for), unless the keep thread has deleted a client.
OnlineRowHasFifo ==
  ~reaped =>
    \A i \in Rows : table[i].is_online =>
      table[i].s_fifo \/ (pc["mng"] = "init" /\ a_pos = i)

\* The server has had one connection at a time, and has not deleted a silent
\* client.
Orderly == ~overlapped /\ ~reaped

\* Then what is stored into a row's fifo are bytes of that row's client (the
\* comment at write_data_c_fifo: each one's data goes into its own fifo), or,
\* after a reset, what happens to be in the buffer.
OwnFifo ==
  Orderly /\ pc["mng"] = "store" =>
    LET p == table[row["mng"]].client_addr
    IN  got = p \/ (got = Garbage /\ ends[p] = "dead")

\* Between two rounds of the managing thread an online row has an open socket
\* whose other end is the row's client: who left is no longer in the table (the
\* comment at recv_data_client's return 0).
OnlineRowIsConnected ==
  pc["mng"] = "copy" =>
    \A i \in Rows : table[i].is_online =>
      table[i].client_fd \in Fds /\ sock[table[i].client_fd] = table[i].client_addr

OrderlyRowIsConnected == Orderly => OnlineRowIsConnected

\* Clients can still connect: no update of the monitored set loses the listening
\* socket, and on an orderly server select looks as far as that.
StillListening ==
  /\ ListenFd \in serve_fds
  /\ Orderly => max_fd >= ListenFd

\* A client that connects is accepted.
ClientIsAccepted ==
  \A p \in Peers :
    (\E k \in 1 .. Len(backlog) : backlog[k] = p)
      ~> (\A k \in 1 .. Len(backlog) : backlog[k] # p) \/ ~Orderly \/ ~Running

\* A client that closes or resets its connection is dropped: its socket is
\* closed and no online row is left for it.
LeaverIsForgotten ==
  \A p \in Peers :
    ends[p] # "open"
      ~> \/ ~Orderly \/ ~Running
         \/ /\ \A f \in Fds : sock[f] # p
            /\ \A i \in Rows : table[i].client_addr # p

\* Heartbeats go on: an online row is visited by the keep thread with the
\* timer's flag set again and again.
HeartbeatsGoOn ==
  \A i \in Rows :
    []<>(\/ ~Running \/ ~table[i].is_online
         \/ pc["keep"] = "row" /\ row["keep"] = i /\ alive_flag)
=============================================================================
