# A TLA+ model of linux_tcp_program

`linux_tcp_program` is a C program built in two variants from one source tree: a
**server** (x86-64) that accepts up to ten clients, and a **client** (embedded
ARM board) with two LEDs, a serial port and one connection to the server. Both
variants are a handful of threads that share structures without a single lock,
atomic or condition variable. This directory models how those threads, the
kernel and the network interleave, and proves part of what holds.

## 1. Inventory

| component | state | operations | interacts with |
|---|---|---|---|
| `main.c` | `app_t` on the stack, not initialised | init, start, join, stop, deinit of everything, in that order | all |
| `app/app.c` | `app_flag`, the message received last, the parsed command | `app_start/stop`, `app_process` (dispatch by command: system, LED, inet, serial) | takes from the message queue; calls `tcp_*_send`, `tty_send`, `app_led_conf`, `*_stop` |
| `utility/msg` | a System V message queue | `msg_init/deinit/send/recive` | sent to by the frame handlers, received from by the app thread |
| `utility/fifo` | `read`, `write`, `buffer`, `size_mark` | `buffer_fifo_init/deinit/read/write` | one writing and one reading thread per ring: socket thread → parser (512 or 1024 bytes), serial port → HUP parser (512), app → serial port (128) |
| `utility/fifo/fifo` | the same with ints | | not compiled |
| `utility/hip` | parser state, `read_len`, frame | `hip_init/deinit/pack/parse` | packs in the sending thread, parses in the commit thread, success handler → message queue |
| `utility/hup` | static parser state, static reply frame | `hup_init/deinit/pack/parse` | serial threads and app thread |
| `utility/led` | none | | called by nothing |
| `led_app` | `led_mng` (two LEDs), timers | init, start, stop, configure, refresh thread, timer handler | app thread, timer, LED thread |
| `uart_app` | two rings, three threads' flags | init, start, stop, send, three thread loops | serial device, rings, HUP |
| `inet_app/tcp_server` | table of ten rows (descriptor, online, address, fifo, parser, last heartbeat), `add_position`, `serve_fds`, `alive_flag` | managing thread (select, accept, fill a row, receive), keep-alive thread (heartbeats, reaping), one commit thread per client, timer handler, send, start, stop | kernel sockets, rings, HIP, message queue |
| `inet_app/tcp_client` | `comm_fd`, `client_fds`, `keep_last_time`, `alive_flag`, `retry_count`, fifo, parser | receiving thread (connect, select, receive), keep-alive thread (heartbeats, reconnecting), commit thread, timer handler, send, start, stop | kernel socket, ring, HIP, message queue |

What is hard about this code, and what makes each part correct:

* **The ring** is used by two threads without synchronisation. It is correct when
  it is a first-in first-out queue whatever the interleaving; it depends on the
  order in which stores become visible, which only x86 guarantees.
* **The client table** is changed by two threads that delete rows with the same
  code, while the kernel reuses descriptor numbers. It is correct when an online
  row and an open connection correspond, the data received for a row is its
  client's, a new client gets a row of its own, silent and departed clients are
  dropped, and neither thread makes the other one's `select` fail.
* **The frame parser** gets its bytes one at a time and has no resynchronisation.
  It is correct when the frames that were sent, and only those, are handed over.
* **The client's connection** is replaced by one thread while another one is
  blocked on it. It is correct when heartbeats go on, a dead connection is
  noticed and replaced, and the new one is paired and heard.
* **The handshake** runs through two message queues that outlive the processes,
  and a reply is addressed by a number its receiver has chosen. It is correct when
  a request is answered once, the answer pairs the client, only commands of the
  other end's kind reach a program, and the exchange ends.
* **The serial frames** come over a line that may damage bytes, through a ring that
  drops what does not fit. The parser is correct when it hands over what was sent
  and finds the next frame after a damaged one.
* **Start and stop**: threads start before the flags they test are set, a command 0
  can come at any time, and the process frees structures that detached threads
  use. It is correct when a thread that runs goes on until it is stopped, a stop ends
  every thread that main joins, and a thread whose memory is freed has been told to end.

`PROJECT.json` lists the components with their status, and the hazards with the
line where each bites and the properties that cover it.

## 2. Plan

The most important behaviour comes first; each module is written to be proved
about (no `RECURSIVE` operators, constants with named assumptions).

| | module | abstract specification | state |
|---|---|---|---|
| 1 | `RingFifo` | `ByteQueue` | checked, safety and refinement proved |
| 2 | `ServerTable` | – | checked, safety proved |
| 3 | `HipStream` | `FrameChannel` | checked, safety and refinement proved |
| 4 | `TcpClient` | – | checked, safety proved |
| 5 | `Pairing` (queue, app threads, both ends) | – | checked, safety proved |
| 6 | `SerialPort` (threads, ring, HUP parser) | `FrameChannel`, with `ByteQueue` as its ring | checked, safety and refinement proved |
| 7 | `Lifecycle` (main, start, stop, joins, commit threads) | – | checked, safety proved |
| – | the commit threads' choice of their row | – | not modelled, see section 7 |
| – | the LEDs | – | not modelled, see section 7 |

The modules do not instantiate one another except for the abstract specifications
`ByteQueue` and `FrameChannel`: each takes what the next one promises as its
external part. `SerialPort` uses the queue that `RingFifo` is shown to be (a write is
all that fits, or nothing); `Pairing` sends the frames that `HipStream` hands over whole, over
the connections that `ServerTable` and `TcpClient` keep; `Lifecycle` runs the threads of all.

Every safety property and every refinement that a run checks is also proved. What would
come next: the choice of a row by the commit threads, which section 7 leaves out, and the
liveness properties, for which the proof system has no rules.

## 3. The modules

Definitions are named after the functions and variables they model; the `map` of
`PROJECT.json` gives the lines of each. A definition `Mutant...` is *not* part of
a model: it is the definition of the same name with a plausible mistake in it, and
exists to show that a property notices that mistake.

### RingFifo, ByteQueue (utility/fifo/ring_buffer_fifo.c)

State: `read`, `write`, `buffer` of `buffer_fifo_t`; where the two threads are
(`wpc`, `rpc`) and the locals of their calls. `WriteCall` is the admission test of
`buffer_fifo_write`, `WriteTest`/`WriteStore`/`WriteAdvance` are the three shared
accesses of `ring_fifo_single_write`; `ReadCall`, `ReadTest`, `ReadLoad`,
`ReadAdvance` are those of `buffer_fifo_read`. Every access of a variable the other
thread writes is a step. `& size_mark` is `% Size`, because every size in the
code is a power of two (`MCRingFifo` assumes it). The build is not optimised
(the Makefile has no `-O`), so each access in the source is one in the program;
what the processor reorders is modelled: with `StoresInOrder = FALSE` a byte's
store may stay invisible (`delayed`) until `Drain`.

`ByteQueue` is the promise: `Offer` a buffer, `Put` its next byte, `Take` the oldest
one. `IsByteQueue` is the refinement, with `Contents` as the mapping: the bytes
between `read` and `write`, without the one the reader has copied out already.

### ServerTable (inet_app/tcp_server/tcp_server.c)

State: the table's rows, `add_position`, `serve_fds`, `alive_flag`; per thread a
program counter, its loop index, descriptor, the row it deletes and the word of
`serve_fds` it has loaded; the managing thread's `temp_fds`, `max_fd` and the locals of
`client_info_init`; the kernel's descriptors, accept backlog, whether bytes wait, and
what the other end of each connection is (open, closed, reset).

Steps of the managing thread: `CopyFds`, `Select`, `Accept` (with
`distinguish_client`); `Probe`, `Fill`, `GoOnline`, `InitFifo` (`client_info_init`, whose row is
online before it has a fifo); `LoadToSet`, `Set` (the `FD_SET` after it);
`Scan`, `TestOnline`, `Recv`, `Store` (`recive_data_clients`, which reads a row's descriptor
before it tests whether the row is online). Steps of the keep-alive thread:
`BeginPass`, `CheckRow`, `Reap`, `Reread`, `Beat`, `EndPass` (`check_alive`, which reads the
row's descriptor once for the deletion and again for the `FD_CLR` after it). Both run
`ClearFd` and `Delete`: `FD_CLR`, and `delete_client` with
`client_info_deinit` (`Find`, `TestPosition`, `Decrement`, `Close`, `Offline`, `Free`, in the order
of the code).

What two threads do to one variable takes the steps it takes in the machine.
`FD_SET` and `FD_CLR` load a word, change it and store it: what the other thread
stored in between is lost. `add_position > 0` and the `add_position--` after it are two
steps: after two deletions at once the position is −1, and the next new client is
looked for at `table[-1]`. That is the program counter "outside", where the model does
not follow the program any further.

`recv_data_client` falls off its end without a return value when `recv` fails: the
caller then sees what is in the register, in this build `errno` or what `perror`
left; `Recv` has the outcomes, for a descriptor without data, one that was closed, and a
connection that was reset. `SendOn` is a `send`, by the keep-alive thread (`Beat`) or the
app thread (`Answer`): a closed end may answer it with a reset, a reset is reported once, and
the send after that raises SIGPIPE and ends the program (`exited`).

A client that connects again does so from another port, and as soon as it likes: the
program's own client closes and connects in one breath (tcp_client.c:324-338), so that
both reach the server in one round. `Peers` are these ends, addresses with a port;
the only thing a `Connect` waits for is that the server is through with the
same address and port. `overlapped` (a connect while another connection was
open) and `reaped` (the keep-alive thread has deleted a client) are history variables; they
say of each behaviour whether it was an orderly one.

Time is one bit per row, `expired` (`keep_last_time` is at least `keep_max_time`
ago), and the timer's signal, `Tick`. The first signal comes at once, since `timer_settime`
is given a time long past as an absolute one. `Expire` may happen to an
`Unanswered` row: its client has stopped answering, or its connection is not that client's
any more, or the client left and its descriptor is not monitored. A client whose
leaving `select` can report is dropped in the next round, 0.1 s later, and not ten
seconds later as silent. Left out: the fifo's content (`RingFifo`, `HipStream`) and the
commit threads.

### HipStream, FrameChannel (utility/hip/hip.c)

One direction of one connection: `Send` packs a message (`Packed` is `hip_pack` and
the reserved byte that `tcp_server_send`/`tcp_client_send` write), `Parse` feeds one byte
to `hip_parse`, one definition per state of its switch. `end` says whose parser it
is, and is chosen in `Init`: the two ends receive different messages, and when a
connection breaks (`Break`) the server initialises fifo and parser for the next
client (`ServerReplaces`), while the client keeps both (`ClientReconnects`). A
frame that is cut off there is completed with bytes of the next connection, so that
a frame nobody sent is handed over; `intact` records that no reconnect has cut
one, and from then on the properties say nothing about the client's end. The
parser goes on all the same, and `TypeOK` is about that too.

`FrameChannel` is the promise: whole frames arrive once, in order, and nothing of
a lost connection arrives on the next one. A frame is compared as the handler sees
it (`Received`): the code's frames lose the last byte of their data and gain the
reserved byte (see section 6). Device id and sequence number are parsed for
their length only, since nothing reads them.

### TcpClient (inet_app/tcp_client/tcp_client.c)

State: `client_fds` (one bit: is the descriptor monitored), `alive_flag`, `retry_count`,
whether the heartbeat limit has passed (`expired`); program counters and locals of
the receiving and the keep-alive thread; sockets with their TCP state. The client
opens and closes no other descriptor after its start, so `socket` returns the
number that `close` freed: `comm_fd` is one number, and the model keeps the *socket*
it stands for. A thread blocked in `select`, `recv` or `connect` keeps its socket
(`rconn`, `kconn`) although the descriptor was closed, as the kernel does.

`RecvStart` … `Store` are `recive_serve_thread_fun` with `check_readable` and
`recive_data_server`; `CheckTime` … `CountRetry` are `check_alive` and
`retry_connect_server`; `Commit` is the commit thread noting a heartbeat of the server.
`SendAnd` is `tcp_client_send`: ignored on a closed descriptor, blocked while
connecting, SIGPIPE on a socket that is not connected or was reset. Left out: a
reset sent by the server on its own, and frames and bytes (`HipStream`). `client_fds` is one
bit although it is a word that two threads load, change and store: no other
descriptor is in it, and each store has what its thread made of this bit.

`CheckTime` and `CheckFlag` are the two reads of one condition, `CheckFlagAgain` the read of the
flag in the next one; the timer's signal may come between them. Its first signal comes at
once: `timer_settime` is given 2 s as an absolute time. And `keep_last_time` is in a local of
`main` that nobody initialises, so the keep-alive thread may find the limit passed before
the receiving thread has connected, and replace the socket under it. `socket()` may fail in
`retry_connect_server` (`SocketFails`), which leaves a closed descriptor monitored.

`harm` remembers what went wrong first: a *fault* (a connect, a connection or a
call of `socket()` failed), or *haste* (the keep-alive thread sent before the first
connect, or replaced the connection on a time that was never set); `Smooth` says that
nothing did. `MaxFaults` bounds the faults of a run.

### Pairing (app/app.c, utility/msg/msg.c, the senders of both ends)

One server and some clients, each with its message queue and its app thread. A
message is its command, the first byte of its data, which is the descriptor
number that addresses the reply, and `serial`, whether its data came from a serial port
(and is anything) or from the program (the fixed texts). `CommitServer`/`CommitClient` are the success
handlers of `hip_parse` with `msg_send`; `ServerTakes`/`ClientTakes` are `msg_recive`;
`ServerActs`/`ClientActs` are `app_process` down to `tcp_server_send`,
`tcp_client_send` and `tty_send`; `Connect`, `Hello`, `Reconnect` are the client's
connects and its pairing request; `Type` is a frame from the serial port.

`Start`, `Quit` and `ServerCrash` start the programs and kill them at any moment. The
queue is the kernel's: a run begins with what the last one left in it (`msg_init`
finds the queue by its key), and works it off with connections the message is not
about. A client that is gone is "gone" until a first send provokes the reset and
"reset" until a second one raises SIGPIPE, which nothing handles, or until the
managing thread notices (`Drop`).

Everything that reaches `hup_pack` with data ends the process there (it writes
through the pointer it has just cleared), so every LED or serial command is the end of
its receiver (`ClientEnds`, `ServerEnds`). Platform: on ARM the message type is the
command alone, and a command 0 is type 0, which `msgsnd` refuses; on x86-64 the type is
eight bytes and takes in four bytes of data: `CommitServer` may lose any message with
`serial` data, because the type can be negative. The program's own texts cannot make it so.

The module assumes that the commit thread of a connection works on the row of that
connection. The code does not guarantee it: the thread reads its row from `add_position`
after it was created (tcp_server.c:650), see section 7.

### SerialPort (uart_app/uart_app.c, utility/hup/hup.c)

`Receive` is `tty_read` and the write into the ring: the bytes that have arrived are
offered as one buffer, which the ring refuses as a whole when it is too long, or
takes without its last byte when it is one byte too long (what `RingFifo` establishes);
nobody looks at the result. `Take` and `Parse` are the handling thread, one definition per
state of `hup_parse`; `HandOver` is its success handler, which waits while the message
queue is full, and the parser with it. `AppTakes` stands for the app thread.

The device may send frames (`SendFrame`), frames with one byte changed
(`SendDamaged`), and bytes between frames (`SendNoise`). Two limits on it are what the parser
needs, and are named assumptions: a frame has data and not more than the buffer
holds, and what lies between frames (or is left of a damaged one) has no byte like the
first of a header. Without the first the parser writes past its buffer; without the
second a stray 0xAA swallows the frame after it.

`overrun` records a write past the buffer, `lost` that the ring refused something.
The checksum is computed as in the code, byte for byte.

### Lifecycle (main.c and the start, stop and deinit of all parts)

`main` and `state_system` are lists of calls: `Calls` is main's (create a thread, set its
flag, join, stop, deinit, in the order of the code), `Stop` is what the app thread does for a
command 0. `Main` and `AppStop` carry out the next one; `Loop` is a thread testing its
flag and going on to where it blocks; `Input`, `MsgSend` and `AppReceive` are the ends
of the waits. The flags are in a local of main that nobody initialises: before they are
assigned, a thread finds them all set or all clear. A message may be waiting in the queue from an
earlier run; a command 0 only in the server's, since `msgsnd` refuses the type 0 that it
would be on the 32-bit client. Two quirks are in the model because the code has them: the
client's commit thread tests `connect_flag`, and the server's keep-alive thread is detached and
then joined.

The server has a row and a detached commit thread per client (`row`, `worker`): `Serve` fills
a row and creates its thread, `DeleteClient` takes a row offline, `Work` and `WorkerSend` are the
thread's loop, `OtherSends` the message of a second thread that a row filled twice has.
`tcp_server_stop` (`tell`) clears the commit flags and `tcp_server_deinit` (`free`) frees the rows, one
row at a time, each loop up to the first row that is offline, with clients coming and
going. Nobody waits for the detached threads: `UseFreed` is one of them using what main has
freed, with which the program ends (`crashed`).

## 4. The runs

Sizes are the smallest at which the interesting cases happen.

| run | result | shows | bounds | states |
|---|---|---|---|---|
| `RingFifo_safety` | holds | with stores in order the ring is a FIFO queue of Size − 1 bytes; an admitted write loses at most its last byte; a read that returns 0 has read a byte | 4 slots, 2 byte values, writes of 1–5 bytes (fitting, one too long, refused), reads of 1–2 bytes | 310,000 |
| `RingFifo_reordered` | holds | also where stores become visible late every byte is taken | the same, 1 byte value, stores delayed at will | 46,000 |
| `ServerTable_orderly` | holds | clients that come, send, leave and come back for ever: while their connections have not overlapped and none was deleted as silent, they are accepted, served as their own and forgotten; the listening socket stays monitored and heartbeats go on in any case | 2 rows, 1 descriptor, 2 ends of connections that overlap at will, close or reset; connects without end | 139,000 |
| `ServerTable_churn` | holds | two threads deleting and changing the monitored set: no online row is overwritten, `add_position` leaves the table by one at most, and `select` fails, or an online row has no fifo, only after the keep-alive thread has deleted a client | 3 rows, 2 descriptors, one client that may leave and one that may fall silent, 3 connects in all | 2,030,000 |
| `ServerTable_overlap` | **violated** | two clients at once leave, a third gets the first one's number in another row: when it leaves, the first one's offline row is deleted again and its own stays online | 3 rows, 2 descriptors, 2 ends | |
| `ServerTable_exit` | **violated** | the keep-alive thread closes a descriptor that the managing thread still selects on: `exit(-1)` | 1 silent client | |
| `Hip_ends` | holds | at either end the parser hands over exactly the frames sent, in order, and all of them (at the client's: until a reconnect cuts one) | server: 5 messages (request and heartbeat; 1, 3 and 238 bytes of text that look like version bytes), client: 2; 3 frames, 1 broken connection | 134,000 |
| `TcpClient_faults` | holds | from the start, with the first signal at once and a time that was never set: the descriptor is monitored except while it is replaced; until a fault or a hasty keep-alive thread the program runs, pairs and hears the server; heartbeats go on; a dead connection is given up | 2 sockets, 1 fault of any kind at any time | 234,000 |
| `TcpClient_start` | **violated** | the keep-alive thread replaces the connection before the first connect, though nothing has failed | the same | |
| `Pairing_restarts` | holds | a request is answered at most once, only inet commands reach the server's app thread, the client that the server knows by its own number is paired, and every exchange ends | 2 clients, 2 descriptors, queues of 1 message, 3 client starts, 1 kill, 1 serial message | 418,000 |
| `SerialPort_line` | holds | undamaged frames are handed over once, whole, in order and all of them, unless the ring refuses a byte; only after that can the parser run over its buffer | ring of 4 (holds 3), reads of 2, 2 bytes of data, queue of 1, 2 frames or noise bytes | 492,000 |
| `Lifecycle_both` | holds | both programs, from the first thread to the end of main, with clients that come and go: a row that is freed belongs to a commit thread told to end, no thread ends between the start and the first command 0, and a command 0 after the start ends the server | 3 rows, queue of 1 message, messages without end | 641,000 |

Why these bounds are enough. *Client*: two sockets, the one `comm_fd` stands for and
an older one that a blocked call keeps alive; a third would never be referred to.
One fault reaches each of the program's reactions to it; without that bound, and with a
timer as fast as you like, the same properties hold over 538,000 states.
*Table*: the position that counts as the last one is never filled, so with two rows
only one is ever used, as with clients that come one after the other; three rows are needed for
two clients at once, and two descriptors for one number to mean two connections. In
`ServerTable_churn` three connects let a row and a number be taken, given up by one thread
while the other deletes, and taken again. `ServerTable_orderly` has no such bound: with one
descriptor the second client waits in the backlog or takes the number the first one gave up.
*Ring*: its behaviour depends on the distance of the indices modulo `Size` only; four slots
give empty, partly filled, one left and full. *Pairing*: three starts are one client twice
and another one; queues of one message fill at once. *Serial*: the ring is smaller
than any frame, so the threads have to alternate, and a frame meets a full ring, a
full queue and a parser in every state. *Start and stop*: three rows let the loops over the rows
end at the first, in the middle and at the end.

Deadlock checking is off where the model may stop: after an exit, at main's end,
and where a run bounds the number of frames, starts or connects.

### Fairness

* Ring: the reader polls for ever and the writer finishes its call (`WF` of each
  thread); nobody has to write.
* Server: both threads loop without blocking (`select` has a zero timeout, the
  keep-alive thread never sleeps) and the timer is periodic: `WF(Mng)`, `WF(Keep)`,
  `WF(Tick)`. `TimerIsSlow` lets the keep-alive thread complete one pass between two
  signals; it makes thousands in two seconds. Without it TLC could let the
  signal hit every pass in the middle for ever.
* Parser: the commit thread polls its fifo (`WF(Parse)`).
* Client: the threads run (`WF`); a connect ends (`WF(Establish)`); the timer and
  the clock go on whatever the threads do, so the signal and the passing of ten
  seconds cannot be avoided for ever by threads that are only now and then
  where `Tick`'s and `Expire`'s guards admit them: `SF(Tick)`, `SF(Expire)`. The signal toggles the
  flag. A keep-alive thread that has cleared it sleeps 10 ms per pass and 2 s lie between two
  signals, so not every signal finds the flag raised or hits the few instructions outside
  that sleep: `SF(Tick /\ kpc = "begin" /\ ~alive_flag)`.
* Pairing: the commit threads and the app threads of a running program run, and a
  connected client sends its request (`WF`). Nothing is assumed of whoever starts, kills
  or reconnects a program, or types.
* Serial port: receiving, handling and app thread run (`WF`); the device need not
  send.
* Start and stop: main, the app thread and the managing thread run (`WF`). Nothing is
  assumed of the other threads, of the input or of the clients: `StopEndsMain` is about the
  server, whose main joins only those two.

No run uses symmetry.

## 5. What is proved

The proofs hold for every value of the constants under the assumptions named in
the modules (a ring of at least two slots, a table of at least one row, ...).

* `RingFifo_proofs`. The inductive invariant adds to the types that a thread past
  its test relies on it: past the fullness test the ring is not full, past the
  emptiness test it is not empty. The other thread can only make these truer (the
  reader only frees, the writer only fills), which is why no lock is needed. From it:
  `ThreadsApart`, `ReadReturnsByte`, `CutAtMostOne` for any memory order, and, assuming
  `StoresInOrder`, `CopiedInOrder` and `RingIsByteQueue`: every step of the ring is a
  step of `ByteQueue` under the mapping or leaves it unchanged.
* `ServerTable_proofs`. `TypeCorrect`; `RowWasFree` (a new client never overwrites an
  online row: only the managing thread makes rows online, the other thread only
  takes them offline); `ListenerStays` (no lost update loses the listening socket: both words
  that a thread may have loaded contain it, and neither thread ever clears it). The
  invariant says which rows a thread may work on, and `PositionOK` that the position is −1
  at least, 0 at least where it was tested, and 1 at least where only one thread is about to
  count it down. A second invariant is about servers whose keep-alive thread has deleted nothing:
  then it changes no row and no word, the managing thread's loads are current, and what is
  monitored is open until the thread that monitors it clears it. From it `OnlyReapingFails`
  (`OnlyReapingFailsSelect`) and `RowHasFifo` (`OnlineRowHasFifo`), for clients that
  overlap, close and reset at will. Both fail once a client has been deleted as silent;
  `ServerTable_exit` shows the first.
* `Orderly_proofs`. On a table of at least two rows, as long as connections have not overlapped and
  no client was deleted as silent: `FifoIsOwn` (`OwnFifo`), `RowIsConnected`
  (`OrderlyRowIsConnected`) and `ListensOn` (`StillListening`). The condition is one on the
  behaviour so far and not on the clients: it says nothing of a server that has seen two
  connections at once, and there the properties fail (`ServerTable_overlap`, and the
  deviations below). The invariant, `Served`, says why a row after the other is harmless: each
  client gets the lowest free descriptor and the first row, all other rows are as they were
  initialised, and `max_fd` and the sets follow the one connection through every step of its
  accepting, its data and its end, be that a close or a reset.
* `TcpClient_proofs`. `TypeCorrect` and `AlwaysMonitored` (`MonitorsItsSocket`): the
  invariant adds that a retry in progress has counted at most two, and so the counter
  stays below its limit. `SmoothSuffices` (`StaysUp`): no interleaving of the threads and the
  timer's signals makes the client exit, unless something failed or the keep-alive thread was
  hasty; so these two are the only ways to an end, and `harm` names which came first. Its
  invariant, `FirstConnection`, says that until then every blocked call works on the first
  socket, and that the silence the keep-alive thread can read from the uninitialised
  `keep_last_time` never gets it past a raised `alive_flag`.
* `Pairing_proofs`. `TypeCorrect`, with the queues within their capacity, and `ServerGetsInetCommands`
  (`ServerPartsUnused`). A client's app thread may get any command from its serial port, so the
  invariant is not about commands in general but about what a client can *send*:
  requests and answers are inet commands, and connections, queue and app thread of
  the server hold nothing else, over any number of restarts and crashes.
  `AnsweredOnce` (`AnsweredAtMostOnce`) counts on top of that: a step of any program moves a
  request from a connection to the queue, to the app thread's hands, to the answers, or loses it,
  and only `Hello` makes a new one. The requests on the connections are a set of
  (descriptor, position) pairs, so that the sum over the descriptors is a cardinality, and
  an append, a `Head` or an emptied connection changes it by one, or by what is lost.
* `Lifecycle_proofs`. `TypeCorrect`; `NoThreadEnds` (`ThreadsStay`): main's list sets every flag a
  running thread tests before its first join, and before the first command 0 nothing clears
  them. `FreedWasTold` (`FreedIsTold`), for a table of any size: when main reaches the loop
  that frees, the managing thread has been joined and no row goes online any more, so the
  rows that are online then were online when `tcp_server_stop`'s loop went over them; that loop stops at
  the first offline row, and the one that frees comes to an offline row no later. The
  invariant says of each place of main in the two loops which rows have been told, with the
  keep-alive thread, which nobody waits for, deleting rows at any time.
* `HipStream_proofs`. `TypeCorrect`, at either end and over any number of broken
  connections, frames cut by a reconnect included: `read_len` remains a `uint8_t` in the payload
  and stays below its field's length in the others (`CountsField`), which is what
  keeps the parser inside its frame. `StreamIsFrameChannel`: the stream implements
  `FrameChannel`. Its hypothesis `TextMessages` is what the program's senders pass to `hip_pack`:
  1 to 238 bytes whose last is not a version byte (it is the text's NUL). TLC evaluates it on the
  messages of `Hip_ends`; at 239 bytes the refinement fails (the length 256 of section 6).
  The invariant `Following` needs more than the types because the bytes alone do not
  say where a frame begins: it names the positions at which the frames in transit begin
  (`Marks`), what their bytes are (`FrameByte`), and how the parser's state, counter and fields follow
  from the number of bytes of the first frame it has read (`Inside`), or that it is between
  frames with at most the one byte to skip that `hip_parse` leaves over (`Between`).
* `SerialPort_proofs`. `TypeCorrect`: the ring never holds more than `RSize - 1` bytes, data is not
  written past its buffer except where `overrun` says so, the queue stays within its
  capacity. `NeverAResponse`: when the check byte is looked at, the
  frame counts as a request whatever its header said, and its data is as long as it says.
  `OneByteIsNoticed` is about the checksum alone: sequences that differ in exactly one byte have
  different exclusive ors (each bit of it is the parity of the number of bytes with that bit).
  `PortIsFrameChannel` and `OverrunOnlyAfterLoss` (`OverrunNeedsLoss`) follow from one
  invariant, again called `Following`: until the ring refuses something, what is on its
  way (line, ring and the byte in hand) is a row of *pieces* (`Laid`), each a frame up to its check byte
  (`Whole`) or bytes that the parser skips (`Skipped`); the pieces whose check byte is right are, in order, the frames in
  transit (`Counted`); and the parser's state says how far it is in the first one (`Place`). A damaged
  frame is a piece of either kind, depending on the byte that changed, and is never a good one, by `OneByteIsNoticed`. That a
  frame in hand never has more data than the buffer holds is part of `Whole`,
  and so no write runs over it.

Only model-checked: all liveness properties, since fairness and ENABLED are outside the
proof system's reach (`BytesAreTaken`, `ClientIsAccepted`, `LeaverIsForgotten`, both
`HeartbeatsGoOn`, both `FramesArrive`, `PairsFirst`, `ServerIsHeard`, `SilenceIsNoticed`, `Pairs`,
`ExchangeEnds`, `StopEndsMain`). `ThreadsStay` is an action property and proved. The proofs take the modules one at a time: that `SerialPort`'s ring is the one
`RingFifo` describes, and that the connections of `Pairing` are those of the server's and
the client's module, is argued in section 3 and not proved.

## 6. Deviations met while modelling

The violated runs are listed with the quoted line under `findings`. The models also
contain the following, for which there is no run of its own. Some were found by
model-checking the property that says the contrary.

Ring and frames:

* `buffer_fifo_write` admits one byte more than fits, drops it and returns 0 (`OnlyLastByteCut` is the most that holds).
* On ARM nothing orders a byte's store before the index's store; the reader may copy out the slot's old byte (`CopiedInOrder` needs `StoresInOrder`).
* `recv` is called for 4 bytes at a time (the `sizeof` of a number) and what it returns is written to the fifo byte by byte; a full fifo drops single bytes anywhere in a frame.
* `hip_pack` puts the reserved byte after the header that `length` counts, `hip_parse` takes it for payload and drops the last byte of the data; the device id is assembled with shifts of 7 to 0 bits (hip.c:119).
* 239 bytes of data are accepted by `hip_pack`, and the frame's length 256 is 0 in a `uint8_t`: nothing is sent.
* A serial frame of length 0, or of more than 128, is written past `data` (the length is compared after the byte was stored, and only for equality); a byte 0xAA or 0xBB right before a frame loses the frame.

Server:

* The probe that finds the last free row counts as a full table (tcp_server.c:374); the client is monitored without a row and its descriptor is never closed.
* `delete_client` takes the first row with the descriptor's number, offline rows included: an older one may be found, and the row of the client that left stays online. For the same reason an expired row need not be taken offline.
* `max_fd` is counted down by one at a time until the listening socket is not covered any more; a fifo can be freed under a new client; bytes can be read for another client's row. Connections that overlap (one client that reconnects is enough) or a client deleted as silent bring this about; `Orderly` excludes both.
* `FD_CLR` and `FD_SET` in two threads lose each other's changes: a descriptor that the other thread has closed comes back into the set, and the managing thread's next `select` fails, or a new client's is lost and it is never heard.
* A reset may be taken for data, for an end of file, or for nothing (`Recv`).
* Two deletions at once leave `add_position` at −1.
* The second client's requests are answered to the first: the reply goes to the number the *client* wrote, and every client writes the same one. When the serial device is missing that number is 3, the server's listening socket, and nobody is paired.

Client:

* The pairing request after a reconnect has no data and is refused by `tcp_client_send`; a refused reconnect or a connection closed by the server ends the client with SIGPIPE at the next or next but one heartbeat.
* The keep-alive thread may send or replace the socket before the first connect (`TcpClient_start`): a heartbeat on a socket that is not connected is SIGPIPE, a socket replaced in `connect` ends in `exit(-1)`.
* After a reconnect the receiving thread may wait in `select` for the closed socket, and hear nothing any more.
* `tty_send` ends the process in `hup_pack` whenever there is data to send, so the serial sending thread never gets a byte; all LED commands and every passed-through message come there. With `hup_pack` alone repaired, a passed-through message would be sent back and forth for ever (both ends answer it with itself).
* Messages left in the queue by a killed run are handled by the next one; an answer among them can be sent on the socket that is not connected yet (SIGPIPE).
* main ignores the result of every init: a missing serial device leaves the rings uninitialised, and the threads start.

Start and stop:

* The server's main undoes a command 0 that is handled during the start (it sets the flags after that); in both builds threads that test an uninitialised flag may end at once.
* The client cannot be stopped by a command 0 at all: `msgsnd` refuses type 0 (msg.c:61). If it could, main would wait for threads whose input does not come.
* The timer is deleted by command 0 and again by main.
* The server's keep-alive thread is detached, and joined; it and the commit threads may be running while main frees the table, and use what was freed (`UseFreed`). A commit thread behind an offline row is not even told to end.

## 7. What is not modelled

* **The commit threads' choice of their row.** A commit thread reads its row from `add_position` after it was created, when another accept or a deletion may have changed it; it uses the row's fifo and parser until the row is offline, while the deleting thread frees both. Nothing in the code orders these accesses, so there is no property of them that holds to be checked; both are listed as hazards. `Pairing` assumes the right row, and `Lifecycle` names a thread after the row it was created for. Their parsing is in `HipStream`, their sending in `Pairing`, their loop and end in `Lifecycle`.
* **The LEDs** (`led_app` beyond start and stop). Every LED command ends the process in `tty_send`; the effect of what comes before (`app_led_conf`, the timer, whose handler falls through from the green LED's case to the red one's, and shell commands) can be seen in the process's last moments only. `utility/led` is called by nothing.
* **A full fifo between socket and parser**: what `hip_parse` does with a frame that lacks a byte is in the parser's states, but the runs do not lose bytes there.
* **The inits**: memory that cannot be had, devices that cannot be opened. `Lifecycle` starts after them.
* **Past the table's end**: with all rows online the loop of `tcp_server_stop` runs off the table; `Lifecycle` does not follow it there, nor `ServerTable` a search that begins at row −1.
* **An exit of a thread** (`exit(-1)`, SIGPIPE) ends `ServerTable`'s and `TcpClient`'s behaviours and is left out of `Lifecycle`.
* `utility/fifo/fifo` is not compiled. Termios settings, shell commands, addresses, logging and sleeps are I/O or timing without a state the properties could tell apart.
