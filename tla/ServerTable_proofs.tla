------------------------- MODULE ServerTable_proofs -------------------------
(***************************************************************************)
(* Proofs about ServerTable for every number of rows, descriptors and      *)
(* clients, with every client free to leave, to reset its connection, to   *)
(* connect while others are there, and to fall silent.                     *)
(***************************************************************************)
EXTENDS ServerTable, TLAPS

\* Where a thread's locals are in use they are what the next steps take them
\* for: a row of the table, an open descriptor's number.
LocalsOK ==
  /\ pc["mng"] \in {"probe", "fill", "online", "init", "load", "set", "recv"} =>
       fd["mng"] \in Fds
  /\ pc["mng"] \in {"clear", "unset"} => fd["mng"] \in Fds
  /\ pc["mng"] = "probe" => level <= TCP_MAX_CLIENT
  /\ pc["mng"] \in {"test", "recv", "store"} \cup ClearLabels \cup DeleteLabels =>
       row["mng"] \in Rows
  /\ pc["keep"] \in {"reap", "beat", "reread"} \cup ClearLabels \cup DeleteLabels =>
       row["keep"] \in Rows

\* What a thread has loaded of the monitored set holds the listening socket.
ListenerKept ==
  /\ ListenFd \in serve_fds
  /\ \A t \in Threads : pc[t] \in {"set", "unset"} => ListenFd \in word[t]

\* add_position is never less than what the threads that have tested it are
\* about to take from it, less one: the second test was made on a position
\* above 0, and a deletion or a new client in between sets it to a row.
PositionOK ==
  /\ \A t \in Threads : pc[t] = "decrement" => add_position >= 0
  /\ (\A t \in Threads : pc[t] = "decrement") => add_position >= 1

BaseInv == TypeOK /\ LocalsOK /\ FillsFreeRow /\ ListenerKept

IndInv == BaseInv /\ PositionOK

\* A descriptor with a connection.
InUse(f) == f \in Fds /\ sock[f] # NoPeer

\* While the keep thread has deleted nobody, the managing thread alone opens,
\* monitors and closes descriptors: it monitors open ones only, and takes out
\* of the set what it is about to close, in whatever row it finds it.
MonitorsOpen ==
  /\ pc["keep"] \in {"begin", "row", "beat"}
  /\ exited # "select"
  /\ \A f \in serve_fds : f = ListenFd \/ InUse(f)
  /\ pc["mng"] = "select" => \A f \in temp_fds : f = ListenFd \/ InUse(f)
  /\ pc["mng"] \in {"set", "unset"} => word["mng"] = serve_fds
  /\ pc["mng"] \in {"probe", "fill", "online", "init", "load", "set"} =>
       InUse(fd["mng"])
  /\ pc["mng"] \in {"find", "position", "decrement", "close"} =>
       fd["mng"] \notin serve_fds
  /\ pc["mng"] \in {"position", "decrement", "close"} =>
       table[pos["mng"]].client_fd = fd["mng"]

\* And the fifo of an online row is allocated and freed by that thread alone.
KeepsFifo ==
  /\ \A i \in Rows : table[i].is_online =>
       table[i].s_fifo \/ (pc["mng"] = "init" /\ a_pos = i)
  /\ pc["mng"] = "free" => ~table[pos["mng"]].is_online

UnreapedInv == ~reaped => MonitorsOpen /\ KeepsFifo

\* The table starts empty, and both threads at the top of their loops.
LEMMA InitIndInv == Init => IndInv /\ UnreapedInv
<1> SUFFICES ASSUME Init PROVE IndInv /\ UnreapedInv
  OBVIOUS
<1>1. 0 \in Rows
  BY TableAssumption DEF Rows
<1>2. TypeOK
  <2>1. table \in [Rows -> Row]
    BY DEF Init, Row
  <2>2. ServerOK
    BY <1>1 DEF Init, ServerOK
  <2>3. ThreadsOK
    BY <1>1, TableAssumption DEF Init, ThreadsOK, Threads, MngLabels, KeepLabels
  <2>4. LoopsOK
    <3>1. max_fd \in Int /\ a_pos \in Rows /\ level \in 0 .. TCP_MAX_CLIENT + 1
      BY <1>1, TableAssumption, FdAssumption DEF Init
    <3>2. temp_fds \subseteq Fds \cup {ListenFd}
      BY DEF Init
    <3> QED
      BY <3>1, <3>2 DEF Init, LoopsOK
  <2>5. KernelOK
    <3>1. connects \in 0 .. MaxConnects
      BY BoundAssumption DEF Init
    <3>2. backlog \in Seq(Peers)
      BY DEF Init
    <3> QED
      BY <3>1, <3>2 DEF Init, KernelOK, Ends
  <2> QED
    BY <2>1, <2>2, <2>3, <2>4, <2>5 DEF TypeOK
<1>3. LocalsOK /\ FillsFreeRow /\ ListenerKept /\ PositionOK
  BY DEF Init, LocalsOK, FillsFreeRow, ListenerKept, PositionOK, Threads,
     DeleteLabels, ClearLabels
<1>4. UnreapedInv
  BY DEF Init, UnreapedInv, MonitorsOpen, KeepsFifo, Threads
<1> QED
  BY <1>2, <1>3, <1>4 DEF IndInv, BaseInv

-----------------------------------------------------------------------------
\* Row 0 exists.
LEMMA FirstRow == 0 \in Rows /\ 0 \in 0 .. TCP_MAX_CLIENT
BY TableAssumption DEF Rows

\* No client's descriptor is the listening socket, or the -1 of an empty row.
LEMMA Descriptors ==
  /\ ListenFd \notin Fds /\ -1 \notin Fds /\ ListenFd # -1
  /\ \A f \in Fds : f \in Int
BY FdAssumption DEF Fds

\* The managing thread's loop, the deletion and FD_CLR that both threads share,
\* the keep thread's loop, and everything else.
LEMMA MngLoopStep ==
  ASSUME IndInv, Mng, ~Delete("mng"), ~ClearFd("mng") PROVE BaseInv'
<1> USE DEF IndInv, BaseInv, At, Goto, Threads, server, kernel, keepvars, mngvars,
            threadvars
<1>1. CASE CopyFds
  <2>1. TypeOK'
    BY <1>1 DEF CopyFds, TypeOK, ServerOK, ThreadsOK, LoopsOK, KernelOK,
       MngLabels, KeepLabels, DeleteLabels, ClearLabels
  <2>2. LocalsOK'
    BY <1>1 DEF CopyFds, LocalsOK, ThreadsOK, TypeOK, LoopsOK, DeleteLabels, ClearLabels
  <2>3. FillsFreeRow' /\ ListenerKept'
    BY <1>1 DEF CopyFds, FillsFreeRow, ListenerKept, TypeOK, ThreadsOK, LoopsOK
  <2> QED
    BY <2>1, <2>2, <2>3
<1>2. CASE Select
  <2>1. TypeOK'
    BY <1>2 DEF Select, TypeOK, ServerOK, ThreadsOK, LoopsOK, KernelOK,
       MngLabels, KeepLabels, DeleteLabels, ClearLabels
  <2>2. LocalsOK'
    BY <1>2 DEF Select, LocalsOK, ThreadsOK, TypeOK, LoopsOK, DeleteLabels, ClearLabels
  <2>3. FillsFreeRow' /\ ListenerKept'
    BY <1>2 DEF Select, FillsFreeRow, ListenerKept, TypeOK, ThreadsOK, LoopsOK
  <2> QED
    BY <2>1, <2>2, <2>3
<1>3. CASE Accept
  <2>1. table' \in [Rows -> Row]
    BY <1>3 DEF Accept, TypeOK
  <2>2. ServerOK'
    BY <1>3, FirstRow, TableAssumption, Descriptors DEF Accept, TypeOK, ServerOK
  <2>3. ThreadsOK'
    BY <1>3, FirstRow, TableAssumption, Descriptors DEF Accept, TypeOK,
       ThreadsOK, MngLabels, KeepLabels, DeleteLabels, ClearLabels
  <2>4. LoopsOK' /\ KernelOK'
    <3> DEFINE Nothing == UNCHANGED <<fd, a_pos, level, t_addr, sock, backlog>>
               Taken == /\ backlog # <<>>
                        /\ \E f \in Fds : sock' = [sock EXCEPT ![f] = Head(backlog)]
                        /\ backlog' = Tail(backlog) /\ t_addr' = Head(backlog)
                        /\ a_pos' \in Rows /\ level' = 0
    <3>1. Nothing \/ Taken
      BY <1>3, FirstRow DEF Accept
    <3>2. CASE Nothing
      BY <1>3, <3>2 DEF Accept, TypeOK, LoopsOK, KernelOK
    <3>3. CASE Taken
      <4>1. Head(backlog) \in Peers /\ Tail(backlog) \in Seq(Peers)
        BY <3>3 DEF TypeOK, KernelOK
      <4>2. LoopsOK'
        BY <1>3, <3>3, <4>1, TableAssumption DEF Accept, TypeOK, LoopsOK
      <4>3. KernelOK'
        BY <1>3, <3>3, <4>1 DEF Accept, TypeOK, KernelOK
      <4> QED
        BY <4>2, <4>3
    <3> QED
      BY <3>1, <3>2, <3>3
  <2>6. TypeOK'
    BY <2>1, <2>2, <2>3, <2>4 DEF TypeOK
  <2>7. LocalsOK'
    BY <1>3, FirstRow, TableAssumption, Descriptors DEF Accept, LocalsOK,
       ThreadsOK, TypeOK, LoopsOK, DeleteLabels, ClearLabels
  <2>8. FillsFreeRow' /\ ListenerKept'
    BY <1>3, FirstRow, TableAssumption, Descriptors DEF Accept, FillsFreeRow,
       ListenerKept, TypeOK, ThreadsOK, LoopsOK
  <2> QED
    BY <2>6, <2>7, <2>8
<1>4. CASE Probe
  <2>1. TypeOK'
    BY <1>4, TableAssumption DEF Probe, Rows, LocalsOK, TypeOK, ServerOK,
       ThreadsOK, LoopsOK, KernelOK, MngLabels, KeepLabels, DeleteLabels,
       ClearLabels
  <2>2. LocalsOK'
    BY <1>4, TableAssumption DEF Probe, Rows, LocalsOK, LocalsOK, ThreadsOK,
       TypeOK, LoopsOK, DeleteLabels, ClearLabels
  <2>3. FillsFreeRow' /\ ListenerKept'
    BY <1>4, TableAssumption DEF Probe, Rows, LocalsOK, FillsFreeRow,
       ListenerKept, TypeOK, ThreadsOK, LoopsOK
  <2> QED
    BY <2>1, <2>2, <2>3
<1>5. CASE Fill
  <2>1. a_pos \in Rows /\ table[a_pos] \in Row /\ fd["mng"] \in Fds
    BY <1>5 DEF Fill, TypeOK, ThreadsOK, LoopsOK, LocalsOK
  <2> DEFINE r == [table[a_pos] EXCEPT !.client_fd = fd["mng"], !.expired = FALSE]
  <2>r. r \in Row /\ r.is_online = table[a_pos].is_online
    BY <2>1 DEF Row
  <2>t. table' = [table EXCEPT ![a_pos] = r]
    BY <1>5 DEF Fill
  <2> HIDE DEF r
  <2>2. r \in Row /\ table' = [table EXCEPT ![a_pos] = r] /\ r.is_online = table[a_pos].is_online
    BY <2>r, <2>t
  <2>3. table' \in [Rows -> Row]
    BY <2>2 DEF TypeOK
  <2>4. ServerOK'
    BY <1>5 DEF Fill, TypeOK, ServerOK, LoopsOK
  <2>5. ThreadsOK'
    BY <1>5 DEF Fill, TypeOK, ThreadsOK, MngLabels, KeepLabels, DeleteLabels,
       ClearLabels
  <2>6. LoopsOK' /\ KernelOK'
    BY <1>5 DEF Fill, TypeOK, LoopsOK, KernelOK
  <2>7. TypeOK'
    BY <2>3, <2>4, <2>5, <2>6 DEF TypeOK
  <2>8. LocalsOK'
    BY <1>5 DEF Fill, LocalsOK, ThreadsOK, TypeOK, LoopsOK, DeleteLabels, ClearLabels
  <2>9. FillsFreeRow' /\ ListenerKept'
    BY <1>5, <2>1, <2>2 DEF Fill, FillsFreeRow, ListenerKept, TypeOK, ThreadsOK
  <2> QED
    BY <2>7, <2>8, <2>9
<1>6. CASE GoOnline
  <2>1. a_pos \in Rows /\ table[a_pos] \in Row /\ t_addr \in Peers \cup {NoPeer}
    BY <1>6 DEF GoOnline, TypeOK, ThreadsOK, LoopsOK
  <2> DEFINE r == [table[a_pos] EXCEPT !.is_online = TRUE, !.commit_flag = TRUE, !.client_addr = t_addr]
  <2>r. r \in Row /\ r.is_online
    BY <2>1 DEF Row
  <2>t. table' = [table EXCEPT ![a_pos] = r]
    BY <1>6 DEF GoOnline
  <2> HIDE DEF r
  <2>2. r \in Row /\ table' = [table EXCEPT ![a_pos] = r] /\ r.is_online
    BY <2>r, <2>t
  <2>3. table' \in [Rows -> Row]
    BY <2>2 DEF TypeOK
  <2>4. ServerOK'
    BY <1>6 DEF GoOnline, TypeOK, ServerOK, LoopsOK
  <2>5. ThreadsOK'
    BY <1>6 DEF GoOnline, TypeOK, ThreadsOK, MngLabels, KeepLabels,
       DeleteLabels, ClearLabels
  <2>6. LoopsOK' /\ KernelOK'
    BY <1>6 DEF GoOnline, TypeOK, LoopsOK, KernelOK
  <2>7. TypeOK'
    BY <2>3, <2>4, <2>5, <2>6 DEF TypeOK
  <2>8. LocalsOK'
    BY <1>6 DEF GoOnline, LocalsOK, ThreadsOK, TypeOK, LoopsOK, DeleteLabels,
       ClearLabels
  <2>9. FillsFreeRow' /\ ListenerKept'
    BY <1>6, <2>1, <2>2 DEF GoOnline, FillsFreeRow, ListenerKept, TypeOK, ThreadsOK
  <2> QED
    BY <2>7, <2>8, <2>9
<1>7. CASE InitFifo
  <2>1. a_pos \in Rows /\ table[a_pos] \in Row
    BY <1>7 DEF InitFifo, TypeOK, ThreadsOK, LoopsOK
  <2> DEFINE r == [table[a_pos] EXCEPT !.s_fifo = TRUE]
  <2>r. r \in Row /\ r.is_online = table[a_pos].is_online
    BY <2>1 DEF Row
  <2>t. table' = [table EXCEPT ![a_pos] = r]
    BY <1>7 DEF InitFifo
  <2> HIDE DEF r
  <2>2. r \in Row /\ table' = [table EXCEPT ![a_pos] = r] /\ r.is_online = table[a_pos].is_online
    BY <2>r, <2>t
  <2>3. table' \in [Rows -> Row]
    BY <2>2 DEF TypeOK
  <2>4. ServerOK'
    BY <1>7 DEF InitFifo, TypeOK, ServerOK, LoopsOK
  <2>5. ThreadsOK'
    BY <1>7 DEF InitFifo, TypeOK, ThreadsOK, MngLabels, KeepLabels,
       DeleteLabels, ClearLabels
  <2>6. LoopsOK' /\ KernelOK'
    BY <1>7 DEF InitFifo, TypeOK, LoopsOK, KernelOK
  <2>7. TypeOK'
    BY <2>3, <2>4, <2>5, <2>6 DEF TypeOK
  <2>8. LocalsOK'
    BY <1>7 DEF InitFifo, LocalsOK, ThreadsOK, TypeOK, LoopsOK, DeleteLabels,
       ClearLabels
  <2>9. FillsFreeRow' /\ ListenerKept'
    BY <1>7, <2>1, <2>2 DEF InitFifo, FillsFreeRow, ListenerKept, TypeOK, ThreadsOK
  <2> QED
    BY <2>7, <2>8, <2>9
<1>8. CASE LoadToSet
  <2>1. TypeOK'
    BY <1>8 DEF LoadToSet, TypeOK, ServerOK, ThreadsOK, LoopsOK, KernelOK,
       MngLabels, KeepLabels, DeleteLabels, ClearLabels
  <2>2. LocalsOK'
    BY <1>8 DEF LoadToSet, LocalsOK, ThreadsOK, TypeOK, LoopsOK, DeleteLabels,
       ClearLabels
  <2>3. FillsFreeRow' /\ ListenerKept'
    BY <1>8 DEF LoadToSet, FillsFreeRow, ListenerKept, TypeOK, ThreadsOK, LoopsOK
  <2> QED
    BY <2>1, <2>2, <2>3
<1>9. CASE Set
  <2>1. TypeOK'
    BY <1>9, FirstRow, TableAssumption, Descriptors DEF Set, LocalsOK, TypeOK,
       ServerOK, ThreadsOK, LoopsOK, KernelOK, MngLabels, KeepLabels,
       DeleteLabels, ClearLabels
  <2>2. LocalsOK'
    BY <1>9, FirstRow, TableAssumption, Descriptors DEF Set, LocalsOK, LocalsOK,
       ThreadsOK, TypeOK, LoopsOK, DeleteLabels, ClearLabels
  <2>3. FillsFreeRow' /\ ListenerKept'
    BY <1>9, FirstRow, TableAssumption, Descriptors DEF Set, LocalsOK,
       FillsFreeRow, ListenerKept, TypeOK, ThreadsOK, LoopsOK
  <2> QED
    BY <2>1, <2>2, <2>3
<1>10. CASE Scan
  <2>1. TypeOK'
    BY <1>10, TableAssumption DEF Scan, Rows, Row, TypeOK, ServerOK, ThreadsOK,
       LoopsOK, KernelOK, MngLabels, KeepLabels, DeleteLabels, ClearLabels
  <2>2. LocalsOK'
    BY <1>10, TableAssumption DEF Scan, Rows, Row, LocalsOK, ThreadsOK, TypeOK,
       LoopsOK, DeleteLabels, ClearLabels
  <2>3. FillsFreeRow' /\ ListenerKept'
    BY <1>10, TableAssumption DEF Scan, Rows, Row, FillsFreeRow, ListenerKept,
       TypeOK, ThreadsOK, LoopsOK
  <2> QED
    BY <2>1, <2>2, <2>3
<1>11. CASE TestOnline
  <2>1. TypeOK'
    BY <1>11, TableAssumption, Descriptors DEF TestOnline, Rows, LocalsOK, Row,
       TypeOK, ServerOK, ThreadsOK, LoopsOK, KernelOK, MngLabels, KeepLabels,
       DeleteLabels, ClearLabels
  <2>2. LocalsOK'
    BY <1>11, TableAssumption, Descriptors DEF TestOnline, Rows, LocalsOK, Row,
       LocalsOK, ThreadsOK, TypeOK, LoopsOK, DeleteLabels, ClearLabels
  <2>3. FillsFreeRow' /\ ListenerKept'
    BY <1>11, TableAssumption, Descriptors DEF TestOnline, Rows, LocalsOK, Row,
       FillsFreeRow, ListenerKept, TypeOK, ThreadsOK, LoopsOK
  <2> QED
    BY <2>1, <2>2, <2>3
<1>12. CASE Recv
  <2>1. table' \in [Rows -> Row]
    BY <1>12 DEF Recv, AnyLength, Received, EndOfFile, Skip, Rows, LocalsOK,
       Ends, TypeOK
  <2>2. ServerOK'
    BY <1>12, TableAssumption DEF Recv, AnyLength, Received, EndOfFile, Skip,
       Rows, LocalsOK, Ends, TypeOK, ServerOK
  <2>3. ThreadsOK'
    BY <1>12, TableAssumption DEF Recv, AnyLength, Received, EndOfFile, Skip,
       Rows, LocalsOK, Ends, TypeOK, ThreadsOK, MngLabels, KeepLabels,
       DeleteLabels, ClearLabels
  <2>4. LoopsOK'
    <3>1. PICK p \in Peers \cup {NoPeer} : p = sock[fd["mng"]]
      BY <1>12 DEF Recv, LocalsOK, TypeOK, KernelOK
    <3>2. got' \in Peers \cup {NoPeer, Garbage}
      BY <1>12, <3>1 DEF Recv, AnyLength, Received, EndOfFile, Skip, TypeOK, LoopsOK
    <3> QED
      BY <1>12, <3>2 DEF Recv, TypeOK, LoopsOK
  <2>5. KernelOK'
    BY <1>12, TableAssumption DEF Recv, AnyLength, Received, EndOfFile, Skip,
       Rows, LocalsOK, Ends, TypeOK, KernelOK
  <2>6. TypeOK'
    BY <2>1, <2>2, <2>3, <2>4, <2>5 DEF TypeOK
  <2>7. LocalsOK'
    BY <1>12, TableAssumption DEF Recv, AnyLength, Received, EndOfFile, Skip,
       Rows, LocalsOK, Ends, LocalsOK, ThreadsOK, TypeOK, LoopsOK, DeleteLabels,
       ClearLabels
  <2>8. FillsFreeRow' /\ ListenerKept'
    BY <1>12, TableAssumption DEF Recv, AnyLength, Received, EndOfFile, Skip,
       Rows, LocalsOK, Ends, FillsFreeRow, ListenerKept, TypeOK, ThreadsOK,
       LoopsOK
  <2> QED
    BY <2>6, <2>7, <2>8
<1>13. CASE Store
  <2>1. TypeOK'
    BY <1>13, TableAssumption DEF Store, Rows, LocalsOK, TypeOK, ServerOK,
       ThreadsOK, LoopsOK, KernelOK, MngLabels, KeepLabels, DeleteLabels,
       ClearLabels
  <2>2. LocalsOK'
    BY <1>13, TableAssumption DEF Store, Rows, LocalsOK, LocalsOK, ThreadsOK,
       TypeOK, LoopsOK, DeleteLabels, ClearLabels
  <2>3. FillsFreeRow' /\ ListenerKept'
    BY <1>13, TableAssumption DEF Store, Rows, LocalsOK, FillsFreeRow,
       ListenerKept, TypeOK, ThreadsOK, LoopsOK
  <2> QED
    BY <2>1, <2>2, <2>3
<1> QED
  BY <1>1, <1>2, <1>3, <1>4, <1>5, <1>6, <1>7, <1>8, <1>9, <1>10, <1>11, <1>12,
     <1>13 DEF Mng

LEMMA DeleteStep ==
  ASSUME IndInv, NEW t \in Threads, Delete(t) \/ ClearFd(t) PROVE BaseInv'
<1> USE DEF IndInv, BaseInv, At, Goto, Threads, server, kernel, keepvars, mngvars,
            threadvars
<1>1. CASE Find(t)
  <2>1. TypeOK'
    BY <1>1, TableAssumption DEF Find, FirstRowWith, Return, Rows, LocalsOK,
       TypeOK, ServerOK, ThreadsOK, LoopsOK, KernelOK, MngLabels, KeepLabels,
       DeleteLabels, ClearLabels
  <2>2. LocalsOK'
    BY <1>1, TableAssumption DEF Find, FirstRowWith, Return, Rows, LocalsOK,
       LocalsOK, ThreadsOK, TypeOK, LoopsOK, DeleteLabels, ClearLabels
  <2>3. FillsFreeRow' /\ ListenerKept'
    BY <1>1, TableAssumption DEF Find, FirstRowWith, Return, Rows, LocalsOK,
       FillsFreeRow, ListenerKept, TypeOK, ThreadsOK, LoopsOK
  <2> QED
    BY <2>1, <2>2, <2>3
<1>2. CASE TestPosition(t)
  <2>1. TypeOK'
    BY <1>2, TableAssumption DEF TestPosition, Rows, TypeOK, ServerOK,
       ThreadsOK, LoopsOK, KernelOK, MngLabels, KeepLabels, DeleteLabels,
       ClearLabels
  <2>2. LocalsOK'
    BY <1>2, TableAssumption DEF TestPosition, Rows, LocalsOK, ThreadsOK,
       TypeOK, LoopsOK, DeleteLabels, ClearLabels
  <2>3. FillsFreeRow' /\ ListenerKept'
    BY <1>2, TableAssumption DEF TestPosition, Rows, FillsFreeRow, ListenerKept,
       TypeOK, ThreadsOK, LoopsOK
  <2> QED
    BY <2>1, <2>2, <2>3
<1>3. CASE Decrement(t)
  <2>1. TypeOK'
    BY <1>3, TableAssumption DEF Decrement, Rows, PositionOK, TypeOK, ServerOK,
       ThreadsOK, LoopsOK, KernelOK, MngLabels, KeepLabels, DeleteLabels,
       ClearLabels
  <2>2. LocalsOK'
    BY <1>3, TableAssumption DEF Decrement, Rows, PositionOK, LocalsOK,
       ThreadsOK, TypeOK, LoopsOK, DeleteLabels, ClearLabels
  <2>3. FillsFreeRow' /\ ListenerKept'
    BY <1>3, TableAssumption DEF Decrement, Rows, PositionOK, FillsFreeRow,
       ListenerKept, TypeOK, ThreadsOK, LoopsOK
  <2> QED
    BY <2>1, <2>2, <2>3
<1>4. CASE Close(t)
  <2>1. TypeOK'
    BY <1>4 DEF Close, Ends, TypeOK, ServerOK, ThreadsOK, LoopsOK, KernelOK,
       MngLabels, KeepLabels, DeleteLabels, ClearLabels
  <2>2. LocalsOK'
    BY <1>4 DEF Close, Ends, LocalsOK, ThreadsOK, TypeOK, LoopsOK, DeleteLabels,
       ClearLabels
  <2>3. FillsFreeRow' /\ ListenerKept'
    BY <1>4 DEF Close, Ends, FillsFreeRow, ListenerKept, TypeOK, ThreadsOK, LoopsOK
  <2> QED
    BY <2>1, <2>2, <2>3
<1>5. CASE Offline(t)
  <2>1. pos[t] \in Rows /\ table[pos[t]] \in Row
    BY <1>5 DEF Offline, TypeOK, ThreadsOK, LoopsOK
  <2> DEFINE r == [table[pos[t]] EXCEPT !.is_online = FALSE]
  <2>r. r \in Row /\ ~r.is_online
    BY <2>1 DEF Row
  <2>t. table' = [table EXCEPT ![pos[t]] = r]
    BY <1>5 DEF Offline
  <2> HIDE DEF r
  <2>2. r \in Row /\ table' = [table EXCEPT ![pos[t]] = r] /\ ~r.is_online
    BY <2>r, <2>t
  <2>3. table' \in [Rows -> Row]
    BY <2>2 DEF TypeOK
  <2>4. ServerOK'
    BY <1>5 DEF Offline, TypeOK, ServerOK, LoopsOK
  <2>5. ThreadsOK'
    BY <1>5 DEF Offline, TypeOK, ThreadsOK, MngLabels, KeepLabels, DeleteLabels,
       ClearLabels
  <2>6. LoopsOK' /\ KernelOK'
    BY <1>5 DEF Offline, TypeOK, LoopsOK, KernelOK
  <2>7. TypeOK'
    BY <2>3, <2>4, <2>5, <2>6 DEF TypeOK
  <2>8. LocalsOK'
    BY <1>5 DEF Offline, LocalsOK, ThreadsOK, TypeOK, LoopsOK, DeleteLabels, ClearLabels
  <2>9. FillsFreeRow' /\ ListenerKept'
    BY <1>5, <2>1, <2>2 DEF Offline, FillsFreeRow, ListenerKept, TypeOK, ThreadsOK
  <2> QED
    BY <2>7, <2>8, <2>9
<1>6. CASE Free(t)
  <2>1. pos[t] \in Rows /\ table[pos[t]] \in Row
    BY <1>6 DEF Free, TypeOK, ThreadsOK, LoopsOK
  <2> DEFINE r == [table[pos[t]] EXCEPT !.commit_flag = FALSE, !.client_addr = NoPeer,
                                !.s_fifo = FALSE, !.expired = TRUE]
  <2>r. r \in Row /\ r.is_online = table[pos[t]].is_online
    BY <2>1 DEF Row
  <2>t. table' = [table EXCEPT ![pos[t]] = r]
    BY <1>6 DEF Free
  <2> HIDE DEF r
  <2>2. r \in Row /\ table' = [table EXCEPT ![pos[t]] = r] /\ r.is_online = table[pos[t]].is_online
    BY <2>r, <2>t
  <2>3. table' \in [Rows -> Row]
    BY <2>2 DEF TypeOK
  <2>4. ServerOK'
    BY <1>6, FirstRow, TableAssumption DEF Free, Return, Rows, LocalsOK, TypeOK,
       ServerOK, LoopsOK
  <2>5. ThreadsOK'
    BY <1>6, FirstRow, TableAssumption DEF Free, Return, Rows, LocalsOK, TypeOK,
       ThreadsOK, MngLabels, KeepLabels, DeleteLabels, ClearLabels
  <2>6. LoopsOK' /\ KernelOK'
    BY <1>6, FirstRow, TableAssumption DEF Free, Return, Rows, LocalsOK, TypeOK,
       LoopsOK, KernelOK
  <2>7. TypeOK'
    BY <2>3, <2>4, <2>5, <2>6 DEF TypeOK
  <2>8. LocalsOK'
    BY <1>6, FirstRow, TableAssumption DEF Free, Return, Rows, LocalsOK,
       LocalsOK, ThreadsOK, TypeOK, LoopsOK, DeleteLabels, ClearLabels
  <2>9. FillsFreeRow' /\ ListenerKept'
    BY <1>6, <2>1, <2>2 DEF Free, Return, Rows, LocalsOK, FillsFreeRow,
       ListenerKept, TypeOK, ThreadsOK
  <2> QED
    BY <2>7, <2>8, <2>9
<1>7. CASE LoadToClear(t)
  <2>1. TypeOK'
    BY <1>7 DEF LoadToClear, TypeOK, ServerOK, ThreadsOK, LoopsOK, KernelOK,
       MngLabels, KeepLabels, DeleteLabels, ClearLabels
  <2>2. LocalsOK'
    BY <1>7 DEF LoadToClear, LocalsOK, ThreadsOK, TypeOK, LoopsOK, DeleteLabels,
       ClearLabels
  <2>3. FillsFreeRow' /\ ListenerKept'
    BY <1>7 DEF LoadToClear, FillsFreeRow, ListenerKept, TypeOK, ThreadsOK, LoopsOK
  <2> QED
    BY <2>1, <2>2, <2>3
<1>8. CASE Unset(t)
  <2>1. TypeOK'
    BY <1>8, TableAssumption, Descriptors DEF Unset, Rows, LocalsOK, TypeOK,
       ServerOK, ThreadsOK, LoopsOK, KernelOK, MngLabels, KeepLabels,
       DeleteLabels, ClearLabels
  <2>2. LocalsOK'
    BY <1>8, TableAssumption, Descriptors DEF Unset, Rows, LocalsOK, LocalsOK,
       ThreadsOK, TypeOK, LoopsOK, DeleteLabels, ClearLabels
  <2>3. FillsFreeRow' /\ ListenerKept'
    BY <1>8, TableAssumption, Descriptors DEF Unset, Rows, LocalsOK,
       FillsFreeRow, ListenerKept, TypeOK, ThreadsOK, LoopsOK
  <2> QED
    BY <2>1, <2>2, <2>3
<1> QED
  BY <1>1, <1>2, <1>3, <1>4, <1>5, <1>6, <1>7, <1>8 DEF Delete, ClearFd

LEMMA KeepLoopStep ==
  ASSUME IndInv, Keep, ~Delete("keep"), ~ClearFd("keep") PROVE BaseInv'
<1> USE DEF IndInv, BaseInv, At, Goto, Threads, server, kernel, keepvars, mngvars,
            threadvars
<1>1. CASE BeginPass
  <2>1. table' \in [Rows -> Row]
    BY <1>1 DEF BeginPass, TypeOK
  <2>2. ServerOK'
    BY <1>1, FirstRow DEF BeginPass, TypeOK, ServerOK
  <2>3. ThreadsOK'
    BY <1>1, FirstRow DEF BeginPass, TypeOK, ThreadsOK, MngLabels, KeepLabels,
       DeleteLabels, ClearLabels
  <2>4. LoopsOK'
    BY <1>1, FirstRow DEF BeginPass, TypeOK, LoopsOK
  <2>5. KernelOK'
    BY <1>1, FirstRow DEF BeginPass, TypeOK, KernelOK
  <2>6. TypeOK'
    BY <2>1, <2>2, <2>3, <2>4, <2>5 DEF TypeOK
  <2>7. LocalsOK'
    BY <1>1, FirstRow DEF BeginPass, LocalsOK, ThreadsOK, TypeOK, LoopsOK,
       DeleteLabels, ClearLabels
  <2>8. FillsFreeRow' /\ ListenerKept'
    BY <1>1, FirstRow DEF BeginPass, FillsFreeRow, ListenerKept, TypeOK,
       ThreadsOK, LoopsOK
  <2> QED
    BY <2>6, <2>7, <2>8
<1>2. CASE CheckRow
  <2>1. TypeOK'
    BY <1>2, TableAssumption DEF CheckRow, Rows, Row, TypeOK, ServerOK,
       ThreadsOK, LoopsOK, KernelOK, MngLabels, KeepLabels, DeleteLabels,
       ClearLabels
  <2>2. LocalsOK'
    BY <1>2, TableAssumption DEF CheckRow, Rows, Row, LocalsOK, ThreadsOK,
       TypeOK, LoopsOK, DeleteLabels, ClearLabels
  <2>3. FillsFreeRow' /\ ListenerKept'
    BY <1>2, TableAssumption DEF CheckRow, Rows, Row, FillsFreeRow,
       ListenerKept, TypeOK, ThreadsOK, LoopsOK
  <2> QED
    BY <2>1, <2>2, <2>3
<1>3. CASE EndPass
  <2>1. TypeOK'
    BY <1>3 DEF EndPass, TypeOK, ServerOK, ThreadsOK, LoopsOK, KernelOK,
       MngLabels, KeepLabels, DeleteLabels, ClearLabels
  <2>2. LocalsOK'
    BY <1>3 DEF EndPass, LocalsOK, ThreadsOK, TypeOK, LoopsOK, DeleteLabels, ClearLabels
  <2>3. FillsFreeRow' /\ ListenerKept'
    BY <1>3 DEF EndPass, FillsFreeRow, ListenerKept, TypeOK, ThreadsOK, LoopsOK
  <2> QED
    BY <2>1, <2>2, <2>3
<1>4. CASE Reap
  <2>1. TypeOK'
    BY <1>4 DEF Reap, LocalsOK, Row, TypeOK, ServerOK, ThreadsOK, LoopsOK,
       KernelOK, MngLabels, KeepLabels, DeleteLabels, ClearLabels
  <2>2. LocalsOK'
    BY <1>4 DEF Reap, LocalsOK, Row, LocalsOK, ThreadsOK, TypeOK, LoopsOK,
       DeleteLabels, ClearLabels
  <2>3. FillsFreeRow' /\ ListenerKept'
    BY <1>4 DEF Reap, LocalsOK, Row, FillsFreeRow, ListenerKept, TypeOK,
       ThreadsOK, LoopsOK
  <2> QED
    BY <2>1, <2>2, <2>3
<1>5. CASE Reread
  <2>1. TypeOK'
    BY <1>5 DEF Reread, LocalsOK, Row, TypeOK, ServerOK, ThreadsOK, LoopsOK,
       KernelOK, MngLabels, KeepLabels, DeleteLabels, ClearLabels
  <2>2. LocalsOK'
    BY <1>5 DEF Reread, LocalsOK, Row, LocalsOK, ThreadsOK, TypeOK, LoopsOK,
       DeleteLabels, ClearLabels
  <2>3. FillsFreeRow' /\ ListenerKept'
    BY <1>5 DEF Reread, LocalsOK, Row, FillsFreeRow, ListenerKept, TypeOK,
       ThreadsOK, LoopsOK
  <2> QED
    BY <2>1, <2>2, <2>3
<1>6. CASE Beat
  <2>1. TypeOK'
    BY <1>6, TableAssumption DEF Beat, Rows, LocalsOK, SendOn, Ends, TypeOK,
       ServerOK, ThreadsOK, LoopsOK, KernelOK, MngLabels, KeepLabels,
       DeleteLabels, ClearLabels
  <2>2. LocalsOK'
    BY <1>6, TableAssumption DEF Beat, Rows, LocalsOK, SendOn, Ends, LocalsOK,
       ThreadsOK, TypeOK, LoopsOK, DeleteLabels, ClearLabels
  <2>3. FillsFreeRow' /\ ListenerKept'
    BY <1>6, TableAssumption DEF Beat, Rows, LocalsOK, SendOn, Ends,
       FillsFreeRow, ListenerKept, TypeOK, ThreadsOK, LoopsOK
  <2> QED
    BY <2>1, <2>2, <2>3
<1> QED
  BY <1>1, <1>2, <1>3, <1>4, <1>5, <1>6 DEF Keep

LEMMA EnvironmentStep == ASSUME IndInv, Environment PROVE BaseInv'
<1> USE DEF IndInv, BaseInv, At, Goto, Threads, server, kernel, keepvars, mngvars,
            threadvars
<1>1. CASE Tick
  <2>1. table' \in [Rows -> Row]
    BY <1>1 DEF Tick, TypeOK
  <2>2. ServerOK'
    BY <1>1 DEF Tick, TypeOK, ServerOK
  <2>3. ThreadsOK'
    BY <1>1 DEF Tick, TypeOK, ThreadsOK, MngLabels, KeepLabels, DeleteLabels,
       ClearLabels
  <2>4. LoopsOK'
    BY <1>1 DEF Tick, TypeOK, LoopsOK
  <2>5. KernelOK'
    BY <1>1 DEF Tick, TypeOK, KernelOK
  <2>6. TypeOK'
    BY <2>1, <2>2, <2>3, <2>4, <2>5 DEF TypeOK
  <2>7. LocalsOK'
    BY <1>1 DEF Tick, LocalsOK, ThreadsOK, TypeOK, LoopsOK, DeleteLabels, ClearLabels
  <2>8. FillsFreeRow' /\ ListenerKept'
    BY <1>1 DEF Tick, FillsFreeRow, ListenerKept, TypeOK, ThreadsOK, LoopsOK
  <2> QED
    BY <2>6, <2>7, <2>8
<1>2. ASSUME NEW i \in Rows, Expire(i) PROVE BaseInv'
  <2>1. i \in Rows /\ table[i] \in Row
    BY <1>2 DEF Expire, TypeOK, ThreadsOK, LoopsOK
  <2> DEFINE r == [table[i] EXCEPT !.expired = TRUE]
  <2>r. r \in Row /\ r.is_online = table[i].is_online
    BY <2>1 DEF Row
  <2>t. table' = [table EXCEPT ![i] = r]
    BY <1>2 DEF Expire
  <2> HIDE DEF r
  <2>2. r \in Row /\ table' = [table EXCEPT ![i] = r] /\ r.is_online = table[i].is_online
    BY <2>r, <2>t
  <2>3. table' \in [Rows -> Row]
    BY <2>2 DEF TypeOK
  <2>4. ServerOK'
    BY <1>2 DEF Expire, TypeOK, ServerOK, LoopsOK
  <2>5. ThreadsOK'
    BY <1>2 DEF Expire, TypeOK, ThreadsOK, MngLabels, KeepLabels, DeleteLabels,
       ClearLabels
  <2>6. LoopsOK' /\ KernelOK'
    BY <1>2 DEF Expire, TypeOK, LoopsOK, KernelOK
  <2>7. TypeOK'
    BY <2>3, <2>4, <2>5, <2>6 DEF TypeOK
  <2>8. LocalsOK'
    BY <1>2 DEF Expire, LocalsOK, ThreadsOK, TypeOK, LoopsOK, DeleteLabels, ClearLabels
  <2>9. FillsFreeRow' /\ ListenerKept'
    BY <1>2, <2>1, <2>2 DEF Expire, FillsFreeRow, ListenerKept, TypeOK, ThreadsOK
  <2> QED
    BY <2>7, <2>8, <2>9
<1>3. ASSUME NEW f \in Fds, Answer(f) PROVE BaseInv'
  <2>1. TypeOK'
    BY <1>3 DEF Answer, SendOn, Ends, TypeOK, ServerOK, ThreadsOK, LoopsOK,
       KernelOK, MngLabels, KeepLabels, DeleteLabels, ClearLabels
  <2>2. LocalsOK'
    BY <1>3 DEF Answer, SendOn, Ends, LocalsOK, ThreadsOK, TypeOK, LoopsOK,
       DeleteLabels, ClearLabels
  <2>3. FillsFreeRow' /\ ListenerKept'
    BY <1>3 DEF Answer, SendOn, Ends, FillsFreeRow, ListenerKept, TypeOK,
       ThreadsOK, LoopsOK
  <2> QED
    BY <2>1, <2>2, <2>3
<1>4. ASSUME NEW p \in Peers, Connect(p) PROVE BaseInv'
  <2>1. TypeOK'
    BY <1>4, BoundAssumption DEF Connect, TypeOK, ServerOK, ThreadsOK, LoopsOK,
       KernelOK, MngLabels, KeepLabels, DeleteLabels, ClearLabels
  <2>2. LocalsOK'
    BY <1>4, BoundAssumption DEF Connect, LocalsOK, ThreadsOK, TypeOK, LoopsOK,
       DeleteLabels, ClearLabels
  <2>3. FillsFreeRow' /\ ListenerKept'
    BY <1>4, BoundAssumption DEF Connect, FillsFreeRow, ListenerKept, TypeOK,
       ThreadsOK, LoopsOK
  <2> QED
    BY <2>1, <2>2, <2>3
<1>5. ASSUME NEW p \in Peers, Send(p) PROVE BaseInv'
  <2>1. TypeOK'
    BY <1>5 DEF Send, TypeOK, ServerOK, ThreadsOK, LoopsOK, KernelOK, MngLabels,
       KeepLabels, DeleteLabels, ClearLabels
  <2>2. LocalsOK'
    BY <1>5 DEF Send, LocalsOK, ThreadsOK, TypeOK, LoopsOK, DeleteLabels, ClearLabels
  <2>3. FillsFreeRow' /\ ListenerKept'
    BY <1>5 DEF Send, FillsFreeRow, ListenerKept, TypeOK, ThreadsOK, LoopsOK
  <2> QED
    BY <2>1, <2>2, <2>3
<1>6. ASSUME NEW p \in Peers, NEW how \in {"fin", "reset"}, Leave(p, how) PROVE BaseInv'
  <2>1. TypeOK'
    BY <1>6 DEF Leave, Ends, TypeOK, ServerOK, ThreadsOK, LoopsOK, KernelOK,
       MngLabels, KeepLabels, DeleteLabels, ClearLabels
  <2>2. LocalsOK'
    BY <1>6 DEF Leave, Ends, LocalsOK, ThreadsOK, TypeOK, LoopsOK, DeleteLabels,
       ClearLabels
  <2>3. FillsFreeRow' /\ ListenerKept'
    BY <1>6 DEF Leave, Ends, FillsFreeRow, ListenerKept, TypeOK, ThreadsOK, LoopsOK
  <2> QED
    BY <2>1, <2>2, <2>3
<1> QED
  BY <1>1, <1>2, <1>3, <1>4, <1>5, <1>6 DEF Environment

LEMMA StepBaseInv == ASSUME IndInv, [Next]_vars PROVE BaseInv'
<1>1. CASE \E t \in Threads : Delete(t) \/ ClearFd(t)
  BY <1>1, DeleteStep
<1>2. CASE Mng /\ ~Delete("mng") /\ ~ClearFd("mng")
  BY <1>2, MngLoopStep
<1>3. CASE Keep /\ ~Delete("keep") /\ ~ClearFd("keep")
  BY <1>3, KeepLoopStep
<1>4. CASE Environment
  BY <1>4, EnvironmentStep
<1>5. CASE UNCHANGED vars
  BY <1>5 DEF vars, server, threadvars, mngvars, keepvars, kernel, IndInv,
     BaseInv, TypeOK, ServerOK, ThreadsOK, LoopsOK, KernelOK, LocalsOK,
     FillsFreeRow, ListenerKept
<1> QED
  BY <1>1, <1>2, <1>3, <1>4, <1>5 DEF Next, Threads

\* Only these steps change add_position or bring a thread to its decrement.
LEMMA PositionKept ==
  ASSUME IndInv, Next, ~Fill,
         \A t \in Threads : ~TestPosition(t) /\ ~Decrement(t)
  PROVE  /\ add_position' = add_position
         /\ \A t \in Threads : pc'[t] = "decrement" => pc[t] = "decrement"
<1> USE DEF IndInv, BaseInv, TypeOK, ThreadsOK, At, Goto, Threads, server, kernel,
            keepvars, mngvars, threadvars
<1>1. CASE CopyFds \/ Select \/ Accept \/ Probe
  BY <1>1 DEF CopyFds, Select, Accept, Probe
<1>2. CASE GoOnline \/ InitFifo \/ LoadToSet \/ Set
  BY <1>2 DEF GoOnline, InitFifo, LoadToSet, Set
<1>3. CASE Scan \/ TestOnline \/ Recv \/ Store
  BY <1>3 DEF Scan, TestOnline, Recv, AnyLength, Received, EndOfFile, Skip, Store
<1>4. ASSUME NEW t \in Threads, Delete(t) \/ ClearFd(t)
      PROVE  /\ add_position' = add_position
             /\ \A u \in Threads : pc'[u] = "decrement" => pc[u] = "decrement"
  BY <1>4 DEF Delete, Find, Return, Close, Offline, Free, ClearFd, LoadToClear, Unset
<1>5. CASE BeginPass \/ CheckRow \/ EndPass \/ Reap \/ Reread \/ Beat
  BY <1>5 DEF BeginPass, CheckRow, EndPass, Reap, Reread, Beat
<1>6. CASE Environment
  BY <1>6 DEF Environment, Tick, Expire, Answer, Connect, Send, Leave
<1> QED
  BY <1>1, <1>2, <1>3, <1>4, <1>5, <1>6 DEF Next, Mng, Keep

LEMMA StepPositionOK == ASSUME IndInv, [Next]_vars PROVE PositionOK'
<1> USE DEF IndInv, BaseInv, TypeOK, ServerOK, ThreadsOK, LoopsOK, At, Goto,
            Threads, server, PositionOK, Rows
<1>1. CASE Fill
  BY <1>1, TableAssumption DEF Fill
<1>2. ASSUME NEW t \in Threads, TestPosition(t) PROVE PositionOK'
  BY <1>2, TableAssumption DEF TestPosition
<1>3. ASSUME NEW t \in Threads, Decrement(t) PROVE PositionOK'
  BY <1>3, TableAssumption DEF Decrement
<1>4. CASE /\ Next /\ ~Fill
           /\ \A t \in Threads : ~TestPosition(t) /\ ~Decrement(t)
  BY <1>4, PositionKept
<1>5. CASE UNCHANGED vars
  BY <1>5 DEF vars, threadvars
<1> QED
  BY <1>1, <1>2, <1>3, <1>4, <1>5

LEMMA StepIndInv == IndInv /\ [Next]_vars => IndInv'
BY StepBaseInv, StepPositionOK DEF IndInv

-----------------------------------------------------------------------------
\* While the keep thread has deleted nobody it only walks the rows and sends
\* heartbeats.
LEMMA UnreapedStep ==
  ASSUME IndInv, MonitorsOpen, KeepsFifo, ~reaped', Next
  PROVE  MonitorsOpen' /\ KeepsFifo'
<1> USE PeerAssumption, Descriptors
        DEF IndInv, BaseInv, TypeOK, ThreadsOK, LoopsOK, KernelOK, At, Goto, Threads,
            server, kernel, keepvars, mngvars, threadvars, InUse
<1>1. CASE CopyFds
  <2>1. MonitorsOpen'
    BY <1>1 DEF CopyFds, MonitorsOpen
  <2>2. KeepsFifo'
    BY <1>1 DEF CopyFds, KeepsFifo
  <2> QED
    BY <2>1, <2>2
<1>2. CASE Select
  <2>1. MonitorsOpen'
    BY <1>2 DEF Select, Closed, Running, ServerOK, MonitorsOpen
  <2>2. KeepsFifo'
    BY <1>2 DEF Select, Closed, Running, ServerOK, KeepsFifo
  <2> QED
    BY <2>1, <2>2
<1>3. CASE Accept
  <2>1. MonitorsOpen'
    BY <1>3 DEF Accept, LowestFree, MonitorsOpen
  <2>2. KeepsFifo'
    BY <1>3 DEF Accept, LowestFree, KeepsFifo
  <2> QED
    BY <2>1, <2>2
<1>4. CASE Probe
  <2>1. MonitorsOpen'
    BY <1>4 DEF Probe, MonitorsOpen
  <2>2. KeepsFifo'
    BY <1>4 DEF Probe, KeepsFifo
  <2> QED
    BY <2>1, <2>2
<1>5. CASE Fill
  <2>1. MonitorsOpen'
    BY <1>5 DEF Fill, LocalsOK, FillsFreeRow, Row, MonitorsOpen
  <2>2. KeepsFifo'
    BY <1>5 DEF Fill, LocalsOK, FillsFreeRow, Row, KeepsFifo
  <2> QED
    BY <2>1, <2>2
<1>6. CASE GoOnline
  <2>1. MonitorsOpen'
    BY <1>6 DEF GoOnline, LocalsOK, Row, MonitorsOpen
  <2>2. KeepsFifo'
    BY <1>6 DEF GoOnline, LocalsOK, Row, KeepsFifo
  <2> QED
    BY <2>1, <2>2
<1>7. CASE InitFifo
  <2>1. MonitorsOpen'
    BY <1>7 DEF InitFifo, LocalsOK, Row, MonitorsOpen
  <2>2. KeepsFifo'
    BY <1>7 DEF InitFifo, LocalsOK, Row, KeepsFifo
  <2> QED
    BY <2>1, <2>2
<1>8. CASE LoadToSet
  <2>1. MonitorsOpen'
    BY <1>8 DEF LoadToSet, MonitorsOpen
  <2>2. KeepsFifo'
    BY <1>8 DEF LoadToSet, KeepsFifo
  <2> QED
    BY <2>1, <2>2
<1>9. CASE Set
  <2>1. MonitorsOpen'
    BY <1>9 DEF Set, LocalsOK, ServerOK, MonitorsOpen
  <2>2. KeepsFifo'
    BY <1>9 DEF Set, LocalsOK, ServerOK, KeepsFifo
  <2> QED
    BY <2>1, <2>2
<1>10. CASE Scan
  <2>1. MonitorsOpen'
    BY <1>10 DEF Scan, MonitorsOpen
  <2>2. KeepsFifo'
    BY <1>10 DEF Scan, KeepsFifo
  <2> QED
    BY <2>1, <2>2
<1>11. CASE TestOnline
  <2>1. MonitorsOpen'
    BY <1>11 DEF TestOnline, MonitorsOpen
  <2>2. KeepsFifo'
    BY <1>11 DEF TestOnline, KeepsFifo
  <2> QED
    BY <2>1, <2>2
<1>12. CASE Recv
  <2>1. MonitorsOpen'
    BY <1>12 DEF Recv, AnyLength, Received, EndOfFile, Skip, MonitorsOpen
  <2>2. KeepsFifo'
    BY <1>12 DEF Recv, AnyLength, Received, EndOfFile, Skip, KeepsFifo
  <2> QED
    BY <2>1, <2>2
<1>13. CASE Store
  <2>1. MonitorsOpen'
    BY <1>13 DEF Store, MonitorsOpen
  <2>2. KeepsFifo'
    BY <1>13 DEF Store, KeepsFifo
  <2> QED
    BY <2>1, <2>2
<1>14. CASE LoadToClear("mng")
  <2>1. MonitorsOpen'
    BY <1>14 DEF LoadToClear, MonitorsOpen
  <2>2. KeepsFifo'
    BY <1>14 DEF LoadToClear, KeepsFifo
  <2> QED
    BY <2>1, <2>2
<1>15. CASE Unset("mng")
  <2>1. MonitorsOpen'
    BY <1>15 DEF Unset, MonitorsOpen
  <2>2. KeepsFifo'
    BY <1>15 DEF Unset, KeepsFifo
  <2> QED
    BY <2>1, <2>2
<1>16. CASE Find("mng")
  <2>1. MonitorsOpen'
    BY <1>16 DEF Find, FirstRowWith, Return, MonitorsOpen
  <2>2. KeepsFifo'
    BY <1>16 DEF Find, FirstRowWith, Return, KeepsFifo
  <2> QED
    BY <2>1, <2>2
<1>17. CASE TestPosition("mng")
  <2>1. MonitorsOpen'
    BY <1>17 DEF TestPosition, MonitorsOpen
  <2>2. KeepsFifo'
    BY <1>17 DEF TestPosition, KeepsFifo
  <2> QED
    BY <2>1, <2>2
<1>18. CASE Decrement("mng")
  <2>1. MonitorsOpen'
    BY <1>18 DEF Decrement, MonitorsOpen
  <2>2. KeepsFifo'
    BY <1>18 DEF Decrement, KeepsFifo
  <2> QED
    BY <2>1, <2>2
<1>19. CASE Close("mng")
  <2>1. MonitorsOpen'
    BY <1>19 DEF Close, Row, MonitorsOpen
  <2>2. KeepsFifo'
    BY <1>19 DEF Close, Row, KeepsFifo
  <2> QED
    BY <2>1, <2>2
<1>20. CASE Offline("mng")
  <2>1. MonitorsOpen'
    BY <1>20 DEF Offline, Row, MonitorsOpen
  <2>2. KeepsFifo'
    BY <1>20 DEF Offline, Row, KeepsFifo
  <2> QED
    BY <2>1, <2>2
<1>21. CASE Free("mng")
  <2>1. MonitorsOpen'
    BY <1>21 DEF Free, Return, Row, MonitorsOpen
  <2>2. KeepsFifo'
    BY <1>21 DEF Free, Return, Row, KeepsFifo
  <2> QED
    BY <2>1, <2>2
<1>22. CASE BeginPass \/ EndPass
  <2>1. MonitorsOpen'
    BY <1>22 DEF BeginPass, EndPass, MonitorsOpen
  <2>2. KeepsFifo'
    BY <1>22 DEF BeginPass, EndPass, KeepsFifo
  <2> QED
    BY <2>1, <2>2
<1>23. CASE CheckRow
  <2>1. MonitorsOpen'
    BY <1>23 DEF CheckRow, MonitorsOpen
  <2>2. KeepsFifo'
    BY <1>23 DEF CheckRow, KeepsFifo
  <2> QED
    BY <2>1, <2>2
<1>24. CASE Beat
  <2>1. MonitorsOpen'
    BY <1>24 DEF Beat, SendOn, MonitorsOpen
  <2>2. KeepsFifo'
    BY <1>24 DEF Beat, SendOn, KeepsFifo
  <2> QED
    BY <2>1, <2>2
<1>25. CASE Tick
  <2>1. MonitorsOpen'
    BY <1>25 DEF Tick, MonitorsOpen
  <2>2. KeepsFifo'
    BY <1>25 DEF Tick, KeepsFifo
  <2> QED
    BY <2>1, <2>2
<1>26. ASSUME NEW i \in Rows, Expire(i) PROVE MonitorsOpen' /\ KeepsFifo'
  <2>1. MonitorsOpen'
    BY <1>26 DEF Expire, Row, MonitorsOpen
  <2>2. KeepsFifo'
    BY <1>26 DEF Expire, Row, KeepsFifo
  <2> QED
    BY <2>1, <2>2
<1>27. ASSUME NEW f \in Fds, Answer(f) PROVE MonitorsOpen' /\ KeepsFifo'
  <2>1. MonitorsOpen'
    BY <1>27 DEF Answer, SendOn, Running, MonitorsOpen
  <2>2. KeepsFifo'
    BY <1>27 DEF Answer, SendOn, Running, KeepsFifo
  <2> QED
    BY <2>1, <2>2
<1>28. ASSUME NEW p \in Peers, Connect(p) \/ Send(p) PROVE MonitorsOpen' /\ KeepsFifo'
  <2>1. MonitorsOpen'
    BY <1>28 DEF Connect, Send, MonitorsOpen
  <2>2. KeepsFifo'
    BY <1>28 DEF Connect, Send, KeepsFifo
  <2> QED
    BY <2>1, <2>2
<1>29. ASSUME NEW p \in Peers, Leave(p, "fin") \/ Leave(p, "reset") PROVE MonitorsOpen' /\ KeepsFifo'
  <2>1. MonitorsOpen'
    BY <1>29 DEF Leave, MonitorsOpen
  <2>2. KeepsFifo'
    BY <1>29 DEF Leave, KeepsFifo
  <2> QED
    BY <2>1, <2>2
<1>30. ~Delete("keep") /\ ~ClearFd("keep") /\ ~Reap /\ ~Reread
  BY DEF MonitorsOpen, Delete, ClearFd, Find, TestPosition, Decrement, Close,
     Offline, Free,
     LoadToClear, Unset, Reap, Reread
<1>31. CASE Mng
  BY <1>1, <1>2, <1>3, <1>4, <1>5, <1>6, <1>7, <1>8, <1>9, <1>10, <1>11, <1>12,
     <1>13, <1>14, <1>15, <1>16, <1>17, <1>18, <1>19, <1>20, <1>21, <1>31 DEF Mng,
     Delete, ClearFd
<1>32. CASE Keep
  BY <1>22, <1>23, <1>24, <1>30, <1>32 DEF Keep
<1>33. CASE Environment
  BY <1>25, <1>26, <1>27, <1>28, <1>29, <1>33 DEF Environment
<1> QED
  BY <1>31, <1>32, <1>33 DEF Next

\* No step takes back that the keep thread has deleted a client.
LEMMA ReapedStays == ASSUME Next, reaped PROVE reaped'
<1>1. CASE Mng
  BY <1>1 DEF Mng, CopyFds, Select, Accept, Probe, Fill, GoOnline, InitFifo, LoadToSet,
     Set, Scan, TestOnline, Recv, Store, ClearFd, LoadToClear, Unset, Delete, Find,
     TestPosition, Decrement, Close, Offline, Free, keepvars
<1>2. CASE Keep
  BY <1>2 DEF Keep, BeginPass, CheckRow, EndPass, Reap, Reread, Beat, ClearFd,
     LoadToClear,
     Unset, Delete, Find, TestPosition, Decrement, Close, Offline, Free, keepvars
<1>3. CASE Environment
  BY <1>3 DEF Environment, Tick, Expire, Answer, Connect, Send, Leave, keepvars
<1> QED
  BY <1>1, <1>2, <1>3 DEF Next

LEMMA StepUnreapedInv ==
  IndInv /\ UnreapedInv /\ [Next]_vars => UnreapedInv'
<1> SUFFICES ASSUME IndInv, UnreapedInv, [Next]_vars, ~reaped'
             PROVE  MonitorsOpen' /\ KeepsFifo'
  BY DEF UnreapedInv
<1>1. CASE Next
  BY <1>1, ReapedStays, UnreapedStep DEF UnreapedInv
<1>2. CASE UNCHANGED vars
  BY <1>2 DEF vars, server, threadvars, mngvars, keepvars, kernel, UnreapedInv,
     MonitorsOpen, KeepsFifo, InUse
<1> QED
  BY <1>1, <1>2

-----------------------------------------------------------------------------
\* The inductive invariant of the two threads that share the table, and of the
\* managing thread before the keep thread deletes anybody.
THEOREM Invariance == Spec => [](IndInv /\ UnreapedInv)
<1>1. IndInv /\ UnreapedInv /\ [Next]_vars => (IndInv /\ UnreapedInv)'
  BY StepIndInv, StepUnreapedInv
<1> QED
  BY InitIndInv, <1>1, PTL DEF Spec

\* The table, both threads' locals and the kernel's tables keep their types
\* for every number of rows.  Every row a thread works on is one of the table,
\* and add_position is at most one below it, however the two threads'
\* deletions interleave.
THEOREM TypeCorrect == Spec => []TypeOK
BY Invariance, PTL DEF IndInv, BaseInv

\* client_info_init overwrites only an offline row.
THEOREM RowWasFree == Spec => []FillsFreeRow
BY Invariance, PTL DEF IndInv, BaseInv

\* However the two threads' loads and stores of the monitored set interleave:
\* no lost update loses the listening socket.
THEOREM ListenerStays == Spec => [](ListenFd \in serve_fds)
BY Invariance, PTL DEF IndInv, BaseInv, ListenerKept

\* select fails only on a server whose keep thread has deleted a client: with
\* any number of overlapping, closed and reset connections the managing thread
\* alone closes nothing it still monitors.
THEOREM OnlyReapingFails == Spec => []OnlyReapingFailsSelect
<1>1. UnreapedInv => OnlyReapingFailsSelect
  BY DEF UnreapedInv, MonitorsOpen, OnlyReapingFailsSelect
<1> QED
  BY <1>1, Invariance, PTL

\* An online row has a fifo, but for the moment before client_info_init has
\* made it, on a server whose keep thread has not deleted a client.
THEOREM RowHasFifo == Spec => []OnlineRowHasFifo
<1>1. UnreapedInv => OnlineRowHasFifo
  BY DEF UnreapedInv, KeepsFifo, OnlineRowHasFifo
<1> QED
  BY <1>1, Invariance, PTL
=============================================================================
