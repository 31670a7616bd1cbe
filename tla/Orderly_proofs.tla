--------------------------- MODULE Orderly_proofs ---------------------------
(***************************************************************************)
(* The orderly server of ServerTable: while it has one connection at a     *)
(* time and has deleted no silent client, it serves each connection as the *)
(* code means it, for every size of the table of two rows or more, every   *)
(* number of descriptors and clients, and every way in which those send,   *)
(* close, reset and connect again.  The first connection that overlaps     *)
(* another ends what is claimed here.                                      *)
(***************************************************************************)
EXTENDS ServerTable_proofs

\* The descriptor that every connection gets while there is one at a time.
F == ListenFd + 1

\* Nothing is ever put into a row but the first, and no other descriptor is
\* ever opened.
OnlyFirst ==
  /\ add_position = 0
  /\ \A i \in Rows \ {0} : ~table[i].is_online /\ table[i].client_fd = -1
  /\ \A f \in Fds : sock[f] # NoPeer => f = F
  /\ pc["mng"] \notin {"decrement", "outside"}

\* A client waits to be accepted only while there is no connection.
WaitsOnce ==
  backlog # <<>> => (\E p \in Peers : backlog = <<p>>) /\ ~InUse(F)

\* The row is online exactly while the connection is open, but for the steps
\* between accept and the row's assignment, and between close and is_online.
RowIsConnection ==
  /\ table[0].is_online =>
       /\ table[0].client_fd = F /\ F \in Fds
       /\ table[0].client_addr \in Peers
       /\ pc["mng"] # "offline" => sock[F] = table[0].client_addr
       /\ pc["mng"] = "offline" => ~InUse(F)
  /\ InUse(F) => table[0].is_online \/ pc["mng"] \in {"probe", "fill", "online"}

\* Where client_info_init and the deletion are, they work on the client's row
\* and descriptor.
WorksOnFirst ==
  /\ pc["mng"] \in {"probe", "fill", "online"} =>
       a_pos = 0 /\ InUse(F) /\ ~table[0].is_online /\ t_addr = sock[F]
  /\ pc["mng"] = "probe" => level = 0
  /\ pc["mng"] = "online" => table[0].client_fd = F
  /\ pc["mng"] \in {"probe", "fill", "online", "init", "load", "set", "recv",
                    "store", "clear", "unset", "find"} => fd["mng"] = F
  /\ pc["mng"] \in {"init", "load", "set", "recv", "store", "clear", "unset",
                    "find", "position", "close", "offline"} => table[0].is_online
  /\ pc["mng"] \in {"recv", "store", "clear", "unset", "find", "position",
                    "close", "offline", "free"} => row["mng"] = 0
  /\ pc["mng"] \in {"position", "close", "offline", "free"} => pos["mng"] = 0
  /\ pc["mng"] = "free" => ~table[0].is_online
  /\ pc["mng"] = "test" => fd["mng"] = table[row["mng"]].client_fd
  /\ pc["mng"] = "store" =>
       \/ got = table[0].client_addr
       \/ got = Garbage /\ ends[table[0].client_addr] = "dead"

\* The descriptor is monitored while the connection is open, but for the steps
\* between the assignment and FD_SET, and between FD_CLR and close.
Monitored ==
  table[0].is_online /\ pc["mng"] \notin {"init", "load", "set", "find",
                                          "position", "close", "offline"}

MonitorsFirst ==
  /\ serve_fds = {ListenFd} \cup {f \in {F} : Monitored}
  /\ max_fd = IF Monitored THEN F ELSE ListenFd
  /\ pc["mng"] = "select" => temp_fds = serve_fds

\* What select has found readable still is when it is read.
StillReadable ==
  /\ pc["mng"] \in {"probe", "fill", "online", "init", "load", "set"} =>
       F \notin temp_fds
  /\ pc["mng"] = "recv" => F \in temp_fds
  /\ /\ F \in temp_fds
     /\ pc["mng"] \in {"accept", "recv"}
          \/ (pc["mng"] \in {"scan", "test"} /\ row["mng"] = 0)
     => InUse(F) /\ (inbox[sock[F]] \/ ends[sock[F]] # "open")

Served == /\ OnlyFirst /\ WaitsOnce /\ RowIsConnection
          /\ WorksOnFirst /\ MonitorsFirst /\ StillReadable

OrderlyInv == Orderly => Served

-----------------------------------------------------------------------------
\* What the assumptions say of the constants.
LEMMA Basics ==
  ASSUME TCP_MAX_CLIENT >= 2
  PROVE  /\ NoPeer \notin Peers /\ Garbage = "garbage"
         /\ 0 \in Rows /\ TCP_MAX_CLIENT \in Nat
         /\ F \in Int /\ ListenFd \in Int /\ F = ListenFd + 1
         /\ -1 \notin Fds /\ ListenFd \notin Fds /\ F # -1 /\ ListenFd # -1
         /\ \A f \in Fds : f \in Int /\ f >= F /\ F \in Fds
<1>1. /\ -1 \notin Fds /\ ListenFd \notin Fds
      /\ \A f \in Fds : f \in Int /\ f >= F /\ F \in Fds
  BY FdAssumption DEF Fds, F
<1> QED
  BY <1>1, TableAssumption, FdAssumption, PeerAssumption DEF Rows, F, Garbage

\* No client, an empty table: the invariant holds at the start.
LEMMA InitServed == ASSUME TCP_MAX_CLIENT >= 2, Init PROVE Served
<1> USE DEF Init, Threads
<1>1. OnlyFirst /\ WaitsOnce
  BY Basics DEF OnlyFirst, WaitsOnce
<1>2. RowIsConnection /\ WorksOnFirst
  BY Basics DEF RowIsConnection, WorksOnFirst, InUse
<1>3. MonitorsFirst /\ StillReadable
  BY Basics DEF MonitorsFirst, Monitored, StillReadable
<1> QED
  BY <1>1, <1>2, <1>3 DEF Served

-----------------------------------------------------------------------------
(* The steps.  The managing thread's loop first, in its order; each of the *)
(* six parts of the invariant is a step of the proof.                      *)

LEMMA CopyFdsServed ==
  ASSUME TCP_MAX_CLIENT >= 2, IndInv, MonitorsOpen, Served, CopyFds
  PROVE  Served'
<1> USE Basics DEF IndInv, BaseInv, TypeOK, ServerOK, ThreadsOK, LoopsOK, KernelOK, At,
            Goto, Threads, server, kernel, keepvars, mngvars, threadvars, Served,
            InUse, CopyFds
<1>1. OnlyFirst'
  BY DEF OnlyFirst
<1>2. WaitsOnce'
  BY DEF WaitsOnce
<1>3. RowIsConnection'
  BY DEF RowIsConnection
<1>4. WorksOnFirst'
  BY DEF WorksOnFirst
<1>5. MonitorsFirst'
  BY DEF MonitorsFirst, Monitored
<1>6. StillReadable'
  BY DEF StillReadable
<1> QED
  BY <1>1, <1>2, <1>3, <1>4, <1>5, <1>6

LEMMA SelectServed ==
  ASSUME TCP_MAX_CLIENT >= 2, IndInv, MonitorsOpen, Served, Select
  PROVE  Served'
<1> USE Basics DEF IndInv, BaseInv, TypeOK, ServerOK, ThreadsOK, LoopsOK, KernelOK, At,
            Goto, Threads, server, kernel, keepvars, mngvars, threadvars, Served,
            InUse, Select, Closed, Running
<1>1. OnlyFirst'
  BY DEF OnlyFirst, RowIsConnection, MonitorsFirst, Monitored
<1>2. WaitsOnce'
  BY DEF WaitsOnce
<1>3. RowIsConnection'
  BY DEF RowIsConnection
<1>4. WorksOnFirst'
  BY DEF WorksOnFirst
<1>5. MonitorsFirst'
  BY DEF MonitorsFirst, Monitored
<1>6. StillReadable'
  <2>1. F \in temp_fds' /\ pc' # pc => InUse(F) /\ (inbox[sock[F]] \/ ends[sock[F]] # "open")
    <3> SUFFICES ASSUME F \in temp_fds', pc' # pc
                 PROVE  InUse(F) /\ (inbox[sock[F]] \/ ends[sock[F]] # "open")
      OBVIOUS
    <3>1. F \in temp_fds /\ Readable(F)
      OBVIOUS
    <3>2. table[0].is_online /\ pc["mng"] = "select"
      BY <3>1 DEF MonitorsFirst, Monitored
    <3>3. InUse(F)
      BY <3>2 DEF RowIsConnection
    <3> QED
      BY <3>1, <3>3 DEF Readable
  <2> QED
    BY <2>1 DEF StillReadable
<1> QED
  BY <1>1, <1>2, <1>3, <1>4, <1>5, <1>6

LEMMA AcceptServed ==
  ASSUME TCP_MAX_CLIENT >= 2, IndInv, MonitorsOpen, Served, Accept
  PROVE  Served'
<1> USE Basics DEF IndInv, BaseInv, TypeOK, ServerOK, ThreadsOK, LoopsOK, KernelOK, At,
            Goto, Threads, server, kernel, keepvars, mngvars, threadvars, Served,
            InUse
<1>0. \/ /\ backlog # <<>> /\ ~InUse(F) /\ F \in Fds /\ ~table[0].is_online
         /\ \E p \in Peers :
              /\ sock' = [sock EXCEPT ![F] = p] /\ t_addr' = p
         /\ fd' = [fd EXCEPT !["mng"] = F]
         /\ backlog' = <<>> /\ a_pos' = 0 /\ level' = 0
         /\ pc' = [pc EXCEPT !["mng"] = "probe"]
      \/ /\ pc' = [pc EXCEPT !["mng"] = "scan"]
         /\ UNCHANGED <<fd, a_pos, level, t_addr, sock, backlog>>
  <2> SUFFICES ASSUME NEW f \in Fds, LowestFree(f), backlog # <<>>,
                      sock' = [sock EXCEPT ![f] = Head(backlog)],
                      fd' = [fd EXCEPT !["mng"] = f], backlog' = Tail(backlog),
                      t_addr' = Head(backlog),
                      a_pos' = (IF add_position \in Rows THEN add_position ELSE 0), level' = 0,
                      pc' = [pc EXCEPT !["mng"] =
                               IF IsOldClient(Head(backlog)) THEN "scan"
                               ELSE IF add_position \in Rows THEN "probe" ELSE "outside"]
               PROVE  /\ ~InUse(F) /\ F \in Fds /\ ~table[0].is_online
                      /\ \E p \in Peers :
                           /\ sock' = [sock EXCEPT ![F] = p] /\ t_addr' = p
                      /\ fd' = [fd EXCEPT !["mng"] = F]
                      /\ backlog' = <<>> /\ a_pos' = 0 /\ level' = 0
                      /\ pc' = [pc EXCEPT !["mng"] = "probe"]
    BY DEF Accept
  <2>1. ~InUse(F) /\ F \in Fds /\ ~table[0].is_online
         /\ \E p \in Peers : backlog = <<p>>
    <3>1. pc["mng"] = "accept"
      BY DEF Accept
    <3> QED
      BY <3>1 DEF WaitsOnce, RowIsConnection
  <2>2. f = F
    BY <2>1 DEF LowestFree
  <2>3. Head(backlog) \in Peers /\ Tail(backlog) = <<>>
    BY <2>1
  <2>4. ~IsOldClient(Head(backlog))
    <3>1. \A i \in Rows : 0 \in 0 .. i
      BY DEF Rows
    <3> QED
      BY <2>1, <3>1 DEF IsOldClient
  <2>5. add_position = 0
    BY DEF OnlyFirst
  <2> QED
    BY <2>1, <2>2, <2>3, <2>4, <2>5
<1>00. /\ pc["mng"] = "accept" /\ row' = [row EXCEPT !["mng"] = 0]
       /\ UNCHANGED <<server, pos, word, temp_fds, max_fd, got, keepvars, inbox, ends>>
  BY DEF Accept
<1>1. OnlyFirst'
  BY <1>0, <1>00 DEF OnlyFirst
<1>2. WaitsOnce'
  BY <1>0, <1>00 DEF WaitsOnce
<1>3. RowIsConnection'
  BY <1>0, <1>00 DEF RowIsConnection
<1>4. WorksOnFirst'
  BY <1>0, <1>00 DEF WorksOnFirst
<1>5. MonitorsFirst'
  BY <1>0, <1>00 DEF MonitorsFirst, Monitored
<1>6. StillReadable'
  BY <1>0, <1>00 DEF StillReadable
<1> QED
  BY <1>1, <1>2, <1>3, <1>4, <1>5, <1>6

LEMMA ProbeServed ==
  ASSUME TCP_MAX_CLIENT >= 2, IndInv, MonitorsOpen, Served, Probe
  PROVE  Served'
<1> USE Basics DEF IndInv, BaseInv, TypeOK, ServerOK, ThreadsOK, LoopsOK, KernelOK, At,
            Goto, Threads, server, kernel, keepvars, mngvars, threadvars, Served,
            InUse, Probe
<1>1. OnlyFirst'
  BY DEF OnlyFirst, WorksOnFirst, RowIsConnection, MonitorsFirst, Monitored
<1>2. WaitsOnce'
  BY DEF WaitsOnce, WorksOnFirst, RowIsConnection
<1>3. RowIsConnection'
  BY DEF RowIsConnection, WorksOnFirst, RowIsConnection
<1>4. WorksOnFirst'
  BY DEF WorksOnFirst, RowIsConnection, StillReadable, OnlyFirst
<1>5. MonitorsFirst'
  BY DEF MonitorsFirst, Monitored, WorksOnFirst, RowIsConnection
<1>6. StillReadable'
  BY DEF StillReadable, WorksOnFirst, RowIsConnection
<1> QED
  BY <1>1, <1>2, <1>3, <1>4, <1>5, <1>6

LEMMA FillServed ==
  ASSUME TCP_MAX_CLIENT >= 2, IndInv, MonitorsOpen, Served, Fill
  PROVE  Served'
<1> USE Basics DEF IndInv, BaseInv, TypeOK, ServerOK, ThreadsOK, LoopsOK, KernelOK, At,
            Goto, Threads, server, kernel, keepvars, mngvars, threadvars, Served,
            InUse, Fill
<1>1. OnlyFirst'
  BY DEF OnlyFirst, WorksOnFirst, RowIsConnection, MonitorsFirst, Monitored
<1>2. WaitsOnce'
  BY DEF WaitsOnce, WorksOnFirst, RowIsConnection
<1>3. RowIsConnection'
  BY DEF RowIsConnection, WorksOnFirst, RowIsConnection
<1>4. WorksOnFirst'
  BY DEF WorksOnFirst, RowIsConnection, StillReadable, OnlyFirst
<1>5. MonitorsFirst'
  BY DEF MonitorsFirst, Monitored, WorksOnFirst, RowIsConnection
<1>6. StillReadable'
  BY DEF StillReadable, WorksOnFirst, RowIsConnection
<1> QED
  BY <1>1, <1>2, <1>3, <1>4, <1>5, <1>6

LEMMA GoOnlineServed ==
  ASSUME TCP_MAX_CLIENT >= 2, IndInv, MonitorsOpen, Served, GoOnline
  PROVE  Served'
<1> USE Basics DEF IndInv, BaseInv, TypeOK, ServerOK, ThreadsOK, LoopsOK, KernelOK, At,
            Goto, Threads, server, kernel, keepvars, mngvars, threadvars, Served,
            InUse, GoOnline
<1>1. OnlyFirst'
  BY DEF OnlyFirst, WorksOnFirst, RowIsConnection, MonitorsFirst, Monitored
<1>2. WaitsOnce'
  BY DEF WaitsOnce, WorksOnFirst, RowIsConnection
<1>3. RowIsConnection'
  BY DEF RowIsConnection, WorksOnFirst, RowIsConnection
<1>4. WorksOnFirst'
  BY DEF WorksOnFirst, RowIsConnection, StillReadable, OnlyFirst
<1>5. MonitorsFirst'
  BY DEF MonitorsFirst, Monitored, WorksOnFirst, RowIsConnection
<1>6. StillReadable'
  BY DEF StillReadable, WorksOnFirst, RowIsConnection
<1> QED
  BY <1>1, <1>2, <1>3, <1>4, <1>5, <1>6

LEMMA InitFifoServed ==
  ASSUME TCP_MAX_CLIENT >= 2, IndInv, MonitorsOpen, Served, InitFifo
  PROVE  Served'
<1> USE Basics DEF IndInv, BaseInv, TypeOK, ServerOK, ThreadsOK, LoopsOK, KernelOK, At,
            Goto, Threads, server, kernel, keepvars, mngvars, threadvars, Served,
            InUse, InitFifo, Row
<1>1. OnlyFirst'
  BY DEF OnlyFirst, WorksOnFirst, RowIsConnection, MonitorsFirst, Monitored
<1>2. WaitsOnce'
  BY DEF WaitsOnce, WorksOnFirst, RowIsConnection
<1>3. RowIsConnection'
  BY DEF RowIsConnection, WorksOnFirst, RowIsConnection
<1>4. WorksOnFirst'
  BY DEF WorksOnFirst, RowIsConnection, StillReadable, OnlyFirst
<1>5. MonitorsFirst'
  BY DEF MonitorsFirst, Monitored, WorksOnFirst, RowIsConnection
<1>6. StillReadable'
  BY DEF StillReadable, WorksOnFirst, RowIsConnection
<1> QED
  BY <1>1, <1>2, <1>3, <1>4, <1>5, <1>6

LEMMA LoadToSetServed ==
  ASSUME TCP_MAX_CLIENT >= 2, IndInv, MonitorsOpen, Served, LoadToSet
  PROVE  Served'
<1> USE Basics DEF IndInv, BaseInv, TypeOK, ServerOK, ThreadsOK, LoopsOK, KernelOK, At,
            Goto, Threads, server, kernel, keepvars, mngvars, threadvars, Served,
            InUse, LoadToSet
<1>1. OnlyFirst'
  BY DEF OnlyFirst, WorksOnFirst, RowIsConnection, MonitorsFirst, Monitored
<1>2. WaitsOnce'
  BY DEF WaitsOnce, WorksOnFirst, RowIsConnection
<1>3. RowIsConnection'
  BY DEF RowIsConnection, WorksOnFirst, RowIsConnection
<1>4. WorksOnFirst'
  BY DEF WorksOnFirst, RowIsConnection, StillReadable, OnlyFirst
<1>5. MonitorsFirst'
  BY DEF MonitorsFirst, Monitored, WorksOnFirst, RowIsConnection
<1>6. StillReadable'
  BY DEF StillReadable, WorksOnFirst, RowIsConnection
<1> QED
  BY <1>1, <1>2, <1>3, <1>4, <1>5, <1>6

LEMMA SetServed ==
  ASSUME TCP_MAX_CLIENT >= 2, IndInv, MonitorsOpen, Served, Set
  PROVE  Served'
<1> USE Basics DEF IndInv, BaseInv, TypeOK, ServerOK, ThreadsOK, LoopsOK, KernelOK, At,
            Goto, Threads, server, kernel, keepvars, mngvars, threadvars, Served,
            InUse, Set
<1>1. OnlyFirst'
  BY DEF OnlyFirst, WorksOnFirst, RowIsConnection, MonitorsFirst, Monitored
<1>2. WaitsOnce'
  BY DEF WaitsOnce, WorksOnFirst, RowIsConnection
<1>3. RowIsConnection'
  BY DEF RowIsConnection, WorksOnFirst, RowIsConnection
<1>4. WorksOnFirst'
  BY DEF WorksOnFirst, RowIsConnection, StillReadable, OnlyFirst
<1>5. MonitorsFirst'
  BY DEF MonitorsFirst, Monitored, WorksOnFirst, RowIsConnection, MonitorsOpen
<1>6. StillReadable'
  BY DEF StillReadable, WorksOnFirst, RowIsConnection
<1> QED
  BY <1>1, <1>2, <1>3, <1>4, <1>5, <1>6

LEMMA ScanServed ==
  ASSUME TCP_MAX_CLIENT >= 2, IndInv, MonitorsOpen, Served, Scan
  PROVE  Served'
<1> USE Basics DEF IndInv, BaseInv, TypeOK, ServerOK, ThreadsOK, LoopsOK, KernelOK, At,
            Goto, Threads, server, kernel, keepvars, mngvars, threadvars, Served,
            InUse
<1>0. /\ pc["mng"] = "scan"
      /\ UNCHANGED <<server, pos, word, max_fd, a_pos, level, t_addr, got, keepvars, kernel>>
      /\ \/ /\ pc' = [pc EXCEPT !["mng"] = "copy"] /\ temp_fds' = {}
         \/ /\ row["mng"] \in Rows /\ UNCHANGED <<row, temp_fds>>
            /\ pc' = [pc EXCEPT !["mng"] = "test"]
            /\ fd' = [fd EXCEPT !["mng"] = table[row["mng"]].client_fd]
  <2>1. PICK i \in 0 .. TCP_MAX_CLIENT : i = row["mng"]
    OBVIOUS
  <2>2. i # TCP_MAX_CLIENT => i \in Rows
    BY DEF Rows
  <2>3. CASE i = TCP_MAX_CLIENT
    BY <2>1, <2>3 DEF Scan
  <2>4. CASE i # TCP_MAX_CLIENT
    BY <2>1, <2>2, <2>4 DEF Scan
  <2> QED
    BY <2>3, <2>4
<1>1. OnlyFirst'
  BY <1>0 DEF OnlyFirst, WorksOnFirst, RowIsConnection, MonitorsFirst, Monitored
<1>2. WaitsOnce'
  BY <1>0 DEF WaitsOnce, WorksOnFirst, RowIsConnection
<1>3. RowIsConnection'
  BY <1>0 DEF RowIsConnection, WorksOnFirst, RowIsConnection
<1>4. WorksOnFirst'
  BY <1>0 DEF WorksOnFirst, RowIsConnection, StillReadable, OnlyFirst
<1>5. MonitorsFirst'
  BY <1>0 DEF MonitorsFirst, Monitored, WorksOnFirst, RowIsConnection
<1>6. StillReadable'
  BY <1>0 DEF StillReadable, WorksOnFirst, RowIsConnection
<1> QED
  BY <1>1, <1>2, <1>3, <1>4, <1>5, <1>6

LEMMA TestOnlineServed ==
  ASSUME TCP_MAX_CLIENT >= 2, IndInv, MonitorsOpen, Served, TestOnline
  PROVE  Served'
<1> USE Basics DEF IndInv, BaseInv, TypeOK, ServerOK, ThreadsOK, LoopsOK, KernelOK, At,
            Goto, Threads, server, kernel, keepvars, mngvars, threadvars, Served,
            InUse
<1>0. /\ pc["mng"] = "test"
      /\ UNCHANGED <<server, fd, pos, word, mngvars, keepvars, kernel>>
      /\ \/ /\ pc' = [pc EXCEPT !["mng"] = "recv"] /\ UNCHANGED row
            /\ row["mng"] = 0 /\ table[0].is_online /\ fd["mng"] = F /\ F \in temp_fds
         \/ /\ pc' = [pc EXCEPT !["mng"] = "scan"]
            /\ row' = [row EXCEPT !["mng"] = row["mng"] + 1]
            /\ ~(row["mng"] = 0 /\ table[0].is_online /\ F \in temp_fds)
  <2>1. row["mng"] \in Rows /\ fd["mng"] = table[row["mng"]].client_fd
    BY DEF TestOnline, WorksOnFirst, LocalsOK
  <2>2. row["mng"] # 0 => ~table[row["mng"]].is_online
    BY <2>1 DEF OnlyFirst
  <2>3. table[0].is_online => table[0].client_fd = F
    BY DEF RowIsConnection
  <2>4. CASE table[row["mng"]].is_online /\ fd["mng"] \in temp_fds
    BY <2>1, <2>2, <2>3, <2>4 DEF TestOnline
  <2>5. CASE ~(table[row["mng"]].is_online /\ fd["mng"] \in temp_fds)
    BY <2>1, <2>3, <2>5 DEF TestOnline
  <2> QED
    BY <2>4, <2>5
<1>00. row["mng"] \in Nat
  BY DEF TestOnline, LocalsOK, Rows
<1>1. OnlyFirst'
  BY <1>0, <1>00 DEF OnlyFirst, WorksOnFirst, RowIsConnection, MonitorsFirst, Monitored
<1>2. WaitsOnce'
  BY <1>0, <1>00 DEF WaitsOnce, WorksOnFirst, RowIsConnection
<1>3. RowIsConnection'
  BY <1>0, <1>00 DEF RowIsConnection, WorksOnFirst, RowIsConnection
<1>4. WorksOnFirst'
  BY <1>0, <1>00 DEF WorksOnFirst, RowIsConnection, StillReadable, OnlyFirst
<1>5. MonitorsFirst'
  BY <1>0, <1>00 DEF MonitorsFirst, Monitored, WorksOnFirst, RowIsConnection
<1>6. StillReadable'
  BY <1>0, <1>00 DEF StillReadable, WorksOnFirst, RowIsConnection
<1> QED
  BY <1>1, <1>2, <1>3, <1>4, <1>5, <1>6

LEMMA RecvServed ==
  ASSUME TCP_MAX_CLIENT >= 2, IndInv, MonitorsOpen, Served, Recv
  PROVE  Served'
<1> USE Basics DEF IndInv, BaseInv, TypeOK, ServerOK, ThreadsOK, LoopsOK, KernelOK, At,
            Goto, Threads, server, kernel, keepvars, mngvars, threadvars, Served,
            InUse, Recv, AnyLength, Received, EndOfFile, Skip, Rows
<1>1. OnlyFirst'
  BY DEF OnlyFirst, WorksOnFirst, RowIsConnection, MonitorsFirst, Monitored
<1>2. WaitsOnce'
  BY DEF WaitsOnce, WorksOnFirst, RowIsConnection
<1>3. RowIsConnection'
  BY DEF RowIsConnection, WorksOnFirst, RowIsConnection
<1>4. WorksOnFirst'
  BY DEF WorksOnFirst, RowIsConnection, StillReadable, OnlyFirst
<1>5. MonitorsFirst'
  BY DEF MonitorsFirst, Monitored, WorksOnFirst, RowIsConnection
<1>6. StillReadable'
  BY DEF StillReadable, WorksOnFirst, RowIsConnection
<1> QED
  BY <1>1, <1>2, <1>3, <1>4, <1>5, <1>6

LEMMA StoreServed ==
  ASSUME TCP_MAX_CLIENT >= 2, IndInv, MonitorsOpen, Served, Store
  PROVE  Served'
<1> USE Basics DEF IndInv, BaseInv, TypeOK, ServerOK, ThreadsOK, LoopsOK, KernelOK, At,
            Goto, Threads, server, kernel, keepvars, mngvars, threadvars, Served,
            InUse, Store
<1>1. OnlyFirst'
  BY DEF OnlyFirst, WorksOnFirst, RowIsConnection, MonitorsFirst, Monitored
<1>2. WaitsOnce'
  BY DEF WaitsOnce, WorksOnFirst, RowIsConnection
<1>3. RowIsConnection'
  BY DEF RowIsConnection, WorksOnFirst, RowIsConnection
<1>4. WorksOnFirst'
  BY DEF WorksOnFirst, RowIsConnection, StillReadable, OnlyFirst
<1>5. MonitorsFirst'
  BY DEF MonitorsFirst, Monitored, WorksOnFirst, RowIsConnection
<1>6. StillReadable'
  BY DEF StillReadable, WorksOnFirst, RowIsConnection
<1> QED
  BY <1>1, <1>2, <1>3, <1>4, <1>5, <1>6

\* The deletion by the managing thread.
LEMMA LoadToClearServed ==
  ASSUME TCP_MAX_CLIENT >= 2, IndInv, MonitorsOpen, Served, LoadToClear("mng")
  PROVE  Served'
<1> USE Basics DEF IndInv, BaseInv, TypeOK, ServerOK, ThreadsOK, LoopsOK, KernelOK, At,
            Goto, Threads, server, kernel, keepvars, mngvars, threadvars, Served,
            InUse, LoadToClear
<1>1. OnlyFirst'
  BY DEF OnlyFirst, WorksOnFirst, RowIsConnection, MonitorsFirst, Monitored
<1>2. WaitsOnce'
  BY DEF WaitsOnce, WorksOnFirst, RowIsConnection
<1>3. RowIsConnection'
  BY DEF RowIsConnection, WorksOnFirst, RowIsConnection
<1>4. WorksOnFirst'
  BY DEF WorksOnFirst, RowIsConnection, StillReadable, OnlyFirst
<1>5. MonitorsFirst'
  BY DEF MonitorsFirst, Monitored, WorksOnFirst, RowIsConnection
<1>6. StillReadable'
  BY DEF StillReadable, WorksOnFirst, RowIsConnection
<1> QED
  BY <1>1, <1>2, <1>3, <1>4, <1>5, <1>6

LEMMA UnsetServed ==
  ASSUME TCP_MAX_CLIENT >= 2, IndInv, MonitorsOpen, Served, Unset("mng")
  PROVE  Served'
<1> USE Basics DEF IndInv, BaseInv, TypeOK, ServerOK, ThreadsOK, LoopsOK, KernelOK, At,
            Goto, Threads, server, kernel, keepvars, mngvars, threadvars, Served,
            InUse, Unset
<1>1. OnlyFirst'
  BY DEF OnlyFirst, WorksOnFirst, RowIsConnection, MonitorsFirst, Monitored
<1>2. WaitsOnce'
  BY DEF WaitsOnce, WorksOnFirst, RowIsConnection
<1>3. RowIsConnection'
  BY DEF RowIsConnection, WorksOnFirst, RowIsConnection
<1>4. WorksOnFirst'
  BY DEF WorksOnFirst, RowIsConnection, StillReadable, OnlyFirst
<1>5. MonitorsFirst'
  BY DEF MonitorsFirst, Monitored, WorksOnFirst, RowIsConnection, MonitorsOpen
<1>6. StillReadable'
  BY DEF StillReadable, WorksOnFirst, RowIsConnection
<1> QED
  BY <1>1, <1>2, <1>3, <1>4, <1>5, <1>6

LEMMA FindServed ==
  ASSUME TCP_MAX_CLIENT >= 2, IndInv, MonitorsOpen, Served, Find("mng")
  PROVE  Served'
<1> USE Basics DEF IndInv, BaseInv, TypeOK, ServerOK, ThreadsOK, LoopsOK, KernelOK, At,
            Goto, Threads, server, kernel, keepvars, mngvars, threadvars, Served,
            InUse, Find, FirstRowWith, Return, Rows
<1>1. OnlyFirst'
  BY DEF OnlyFirst, WorksOnFirst, RowIsConnection, MonitorsFirst, Monitored
<1>2. WaitsOnce'
  BY DEF WaitsOnce, WorksOnFirst, RowIsConnection
<1>3. RowIsConnection'
  BY DEF RowIsConnection, WorksOnFirst, RowIsConnection
<1>4. WorksOnFirst'
  BY DEF WorksOnFirst, RowIsConnection, StillReadable, OnlyFirst
<1>5. MonitorsFirst'
  BY DEF MonitorsFirst, Monitored, WorksOnFirst, RowIsConnection
<1>6. StillReadable'
  BY DEF StillReadable, WorksOnFirst, RowIsConnection
<1> QED
  BY <1>1, <1>2, <1>3, <1>4, <1>5, <1>6

LEMMA PositionServed ==
  ASSUME TCP_MAX_CLIENT >= 2, IndInv, MonitorsOpen, Served, TestPosition("mng") \/ Decrement("mng")
  PROVE  Served'
<1> USE Basics DEF IndInv, BaseInv, TypeOK, ServerOK, ThreadsOK, LoopsOK, KernelOK, At,
            Goto, Threads, server, kernel, keepvars, mngvars, threadvars, Served,
            InUse, TestPosition, Decrement
<1>1. OnlyFirst'
  BY DEF OnlyFirst, WorksOnFirst, OnlyFirst, RowIsConnection
<1>2. WaitsOnce'
  BY DEF WaitsOnce, WorksOnFirst, OnlyFirst, RowIsConnection
<1>3. RowIsConnection'
  BY DEF RowIsConnection, WorksOnFirst, OnlyFirst, RowIsConnection
<1>4. WorksOnFirst'
  BY DEF WorksOnFirst, WorksOnFirst, OnlyFirst, RowIsConnection
<1>5. MonitorsFirst'
  BY DEF MonitorsFirst, Monitored, WorksOnFirst, OnlyFirst, RowIsConnection
<1>6. StillReadable'
  BY DEF StillReadable, WorksOnFirst, OnlyFirst, RowIsConnection
<1> QED
  BY <1>1, <1>2, <1>3, <1>4, <1>5, <1>6

LEMMA CloseServed ==
  ASSUME TCP_MAX_CLIENT >= 2, IndInv, MonitorsOpen, Served, Close("mng")
  PROVE  Served'
<1> USE Basics DEF IndInv, BaseInv, TypeOK, ServerOK, ThreadsOK, LoopsOK, KernelOK, At,
            Goto, Threads, server, kernel, keepvars, mngvars, threadvars, Served,
            InUse, Close
<1>1. OnlyFirst'
  BY DEF OnlyFirst, WorksOnFirst, RowIsConnection, MonitorsFirst, Monitored
<1>2. WaitsOnce'
  BY DEF WaitsOnce, WorksOnFirst, RowIsConnection
<1>3. RowIsConnection'
  BY DEF RowIsConnection, WorksOnFirst, RowIsConnection
<1>4. WorksOnFirst'
  BY DEF WorksOnFirst, RowIsConnection, StillReadable, OnlyFirst
<1>5. MonitorsFirst'
  BY DEF MonitorsFirst, Monitored, WorksOnFirst, RowIsConnection
<1>6. StillReadable'
  BY DEF StillReadable, WorksOnFirst, RowIsConnection
<1> QED
  BY <1>1, <1>2, <1>3, <1>4, <1>5, <1>6

LEMMA OfflineServed ==
  ASSUME TCP_MAX_CLIENT >= 2, IndInv, MonitorsOpen, Served, Offline("mng")
  PROVE  Served'
<1> USE Basics DEF IndInv, BaseInv, TypeOK, ServerOK, ThreadsOK, LoopsOK, KernelOK, At,
            Goto, Threads, server, kernel, keepvars, mngvars, threadvars, Served,
            InUse, Offline
<1>1. OnlyFirst'
  BY DEF OnlyFirst, WorksOnFirst, RowIsConnection, MonitorsFirst, Monitored
<1>2. WaitsOnce'
  BY DEF WaitsOnce, WorksOnFirst, RowIsConnection
<1>3. RowIsConnection'
  BY DEF RowIsConnection, WorksOnFirst, RowIsConnection
<1>4. WorksOnFirst'
  BY DEF WorksOnFirst, RowIsConnection, StillReadable, OnlyFirst
<1>5. MonitorsFirst'
  BY DEF MonitorsFirst, Monitored, WorksOnFirst, RowIsConnection
<1>6. StillReadable'
  BY DEF StillReadable, WorksOnFirst, RowIsConnection
<1> QED
  BY <1>1, <1>2, <1>3, <1>4, <1>5, <1>6

LEMMA FreeServed ==
  ASSUME TCP_MAX_CLIENT >= 2, IndInv, MonitorsOpen, Served, Free("mng")
  PROVE  Served'
<1> USE Basics DEF IndInv, BaseInv, TypeOK, ServerOK, ThreadsOK, LoopsOK, KernelOK, At,
            Goto, Threads, server, kernel, keepvars, mngvars, threadvars, Served,
            InUse, Free, Return
<1>1. OnlyFirst'
  BY DEF OnlyFirst, WorksOnFirst, RowIsConnection, MonitorsFirst, Monitored
<1>2. WaitsOnce'
  BY DEF WaitsOnce, WorksOnFirst, RowIsConnection
<1>3. RowIsConnection'
  BY DEF RowIsConnection, WorksOnFirst, RowIsConnection
<1>4. WorksOnFirst'
  BY DEF WorksOnFirst, RowIsConnection, StillReadable, OnlyFirst
<1>5. MonitorsFirst'
  BY DEF MonitorsFirst, Monitored, WorksOnFirst, RowIsConnection
<1>6. StillReadable'
  BY DEF StillReadable, WorksOnFirst, RowIsConnection
<1> QED
  BY <1>1, <1>2, <1>3, <1>4, <1>5, <1>6

\* The keep thread, which deletes nobody, and everything else.
LEMMA KeepLoopServed ==
  ASSUME TCP_MAX_CLIENT >= 2, IndInv, MonitorsOpen, Served, BeginPass \/ CheckRow \/ EndPass
  PROVE  Served'
<1> USE Basics DEF IndInv, BaseInv, TypeOK, ServerOK, ThreadsOK, LoopsOK, KernelOK, At,
            Goto, Threads, server, kernel, keepvars, mngvars, threadvars, Served,
            InUse, BeginPass, CheckRow, EndPass
<1>1. OnlyFirst'
  BY DEF OnlyFirst
<1>2. WaitsOnce'
  BY DEF WaitsOnce
<1>3. RowIsConnection'
  BY DEF RowIsConnection
<1>4. WorksOnFirst'
  BY DEF WorksOnFirst
<1>5. MonitorsFirst'
  BY DEF MonitorsFirst, Monitored
<1>6. StillReadable'
  BY DEF StillReadable
<1> QED
  BY <1>1, <1>2, <1>3, <1>4, <1>5, <1>6

LEMMA BeatServed ==
  ASSUME TCP_MAX_CLIENT >= 2, IndInv, MonitorsOpen, Served, Beat
  PROVE  Served'
<1> USE Basics DEF IndInv, BaseInv, TypeOK, ServerOK, ThreadsOK, LoopsOK, KernelOK, At,
            Goto, Threads, server, kernel, keepvars, mngvars, threadvars, Served,
            InUse, Beat, SendOn
<1>1. OnlyFirst'
  BY DEF OnlyFirst
<1>2. WaitsOnce'
  BY DEF WaitsOnce
<1>3. RowIsConnection'
  BY DEF RowIsConnection
<1>4. WorksOnFirst'
  <2>1. \A p \in Peers : ends[p] = "dead" => ends'[p] = "dead"
    OBVIOUS
  <2>2. pc["mng"] = "store" => table[0].client_addr \in Peers
    BY DEF WorksOnFirst, RowIsConnection
  <2>3. UNCHANGED <<table, fd, pos, a_pos, level, t_addr, got, sock>>
        /\ row'["mng"] = row["mng"] /\ pc'["mng"] = pc["mng"]
    OBVIOUS
  <2> HIDE DEF Beat, Answer, SendOn
  <2> QED
    BY <2>1, <2>2, <2>3 DEF WorksOnFirst
<1>5. MonitorsFirst'
  BY DEF MonitorsFirst, Monitored
<1>6. StillReadable'
  BY DEF StillReadable
<1> QED
  BY <1>1, <1>2, <1>3, <1>4, <1>5, <1>6

LEMMA TickServed ==
  ASSUME TCP_MAX_CLIENT >= 2, IndInv, MonitorsOpen, Served, Tick
  PROVE  Served'
<1> USE Basics DEF IndInv, BaseInv, TypeOK, ServerOK, ThreadsOK, LoopsOK, KernelOK, At,
            Goto, Threads, server, kernel, keepvars, mngvars, threadvars, Served,
            InUse, Tick
<1>1. OnlyFirst'
  BY DEF OnlyFirst
<1>2. WaitsOnce'
  BY DEF WaitsOnce
<1>3. RowIsConnection'
  BY DEF RowIsConnection
<1>4. WorksOnFirst'
  BY DEF WorksOnFirst
<1>5. MonitorsFirst'
  BY DEF MonitorsFirst, Monitored
<1>6. StillReadable'
  BY DEF StillReadable
<1> QED
  BY <1>1, <1>2, <1>3, <1>4, <1>5, <1>6

LEMMA ExpireServed ==
  ASSUME TCP_MAX_CLIENT >= 2, IndInv, MonitorsOpen, Served, NEW i \in Rows, Expire(i)
  PROVE  Served'
<1> USE Basics DEF IndInv, BaseInv, TypeOK, ServerOK, ThreadsOK, LoopsOK, KernelOK, At,
            Goto, Threads, server, kernel, keepvars, mngvars, threadvars, Served,
            InUse, Expire, Running
<1>1. OnlyFirst'
  BY DEF OnlyFirst
<1>2. WaitsOnce'
  BY DEF WaitsOnce
<1>3. RowIsConnection'
  BY DEF RowIsConnection
<1>4. WorksOnFirst'
  BY DEF WorksOnFirst
<1>5. MonitorsFirst'
  BY DEF MonitorsFirst, Monitored
<1>6. StillReadable'
  BY DEF StillReadable
<1> QED
  BY <1>1, <1>2, <1>3, <1>4, <1>5, <1>6

LEMMA AnswerServed ==
  ASSUME TCP_MAX_CLIENT >= 2, IndInv, MonitorsOpen, Served, NEW f \in Fds, Answer(f)
  PROVE  Served'
<1> USE Basics DEF IndInv, BaseInv, TypeOK, ServerOK, ThreadsOK, LoopsOK, KernelOK, At,
            Goto, Threads, server, kernel, keepvars, mngvars, threadvars, Served,
            InUse, Answer, SendOn
<1>1. OnlyFirst'
  BY DEF OnlyFirst
<1>2. WaitsOnce'
  BY DEF WaitsOnce
<1>3. RowIsConnection'
  BY DEF RowIsConnection
<1>4. WorksOnFirst'
  <2>1. \A p \in Peers : ends[p] = "dead" => ends'[p] = "dead"
    OBVIOUS
  <2>2. pc["mng"] = "store" => table[0].client_addr \in Peers
    BY DEF WorksOnFirst, RowIsConnection
  <2>3. UNCHANGED <<table, fd, row, pos, a_pos, level, t_addr, got, sock>> /\ pc'["mng"] = pc["mng"]
    OBVIOUS
  <2> HIDE DEF Beat, Answer, SendOn
  <2> QED
    BY <2>1, <2>2, <2>3 DEF WorksOnFirst
<1>5. MonitorsFirst'
  BY DEF MonitorsFirst, Monitored
<1>6. StillReadable'
  BY DEF StillReadable
<1> QED
  BY <1>1, <1>2, <1>3, <1>4, <1>5, <1>6

LEMMA ConnectServed ==
  ASSUME TCP_MAX_CLIENT >= 2, IndInv, MonitorsOpen, Served, NEW p \in Peers, Orderly', Connect(p)
  PROVE  Served'
<1> USE Basics DEF IndInv, BaseInv, TypeOK, ServerOK, ThreadsOK, LoopsOK, KernelOK, At,
            Goto, Threads, server, kernel, keepvars, mngvars, threadvars, Served,
            InUse, Connect, Connected
<1>1. OnlyFirst'
  BY DEF OnlyFirst
<1>2. WaitsOnce'
  <2>1. \A q \in Peers : ~Connected(q)
    BY DEF Orderly
  <2>2. ~InUse(F)
    BY <2>1
  <2>3. backlog = <<>>
    <3>1. \A q \in Peers : backlog # <<q>>
      BY <2>1
    <3> QED
      BY <3>1 DEF WaitsOnce
  <2>4. Append(<<>>, p) = <<p>>
    OBVIOUS
  <2> QED
    BY <2>2, <2>3, <2>4 DEF WaitsOnce
<1>3. RowIsConnection'
  BY DEF RowIsConnection
<1>4. WorksOnFirst'
  BY DEF WorksOnFirst
<1>5. MonitorsFirst'
  BY DEF MonitorsFirst, Monitored
<1>6. StillReadable'
  BY DEF StillReadable
<1> QED
  BY <1>1, <1>2, <1>3, <1>4, <1>5, <1>6

LEMMA SendServed ==
  ASSUME TCP_MAX_CLIENT >= 2, IndInv, MonitorsOpen, Served, NEW p \in Peers, Send(p)
  PROVE  Served'
<1> USE Basics DEF IndInv, BaseInv, TypeOK, ServerOK, ThreadsOK, LoopsOK, KernelOK, At,
            Goto, Threads, server, kernel, keepvars, mngvars, threadvars, Served,
            InUse, Send
<1>1. OnlyFirst'
  BY DEF OnlyFirst
<1>2. WaitsOnce'
  BY DEF WaitsOnce
<1>3. RowIsConnection'
  BY DEF RowIsConnection
<1>4. WorksOnFirst'
  BY DEF WorksOnFirst
<1>5. MonitorsFirst'
  BY DEF MonitorsFirst, Monitored
<1>6. StillReadable'
  BY DEF StillReadable
<1> QED
  BY <1>1, <1>2, <1>3, <1>4, <1>5, <1>6

LEMMA LeaveServed ==
  ASSUME TCP_MAX_CLIENT >= 2, IndInv, MonitorsOpen, Served, NEW p \in Peers, NEW how \in {"fin", "reset"}, Leave(p, how)
  PROVE  Served'
<1> USE Basics DEF IndInv, BaseInv, TypeOK, ServerOK, ThreadsOK, LoopsOK, KernelOK, At,
            Goto, Threads, server, kernel, keepvars, mngvars, threadvars, Served,
            InUse, Leave, Ends
<1>1. OnlyFirst'
  BY DEF OnlyFirst
<1>2. WaitsOnce'
  BY DEF WaitsOnce
<1>3. RowIsConnection'
  BY DEF RowIsConnection
<1>4. WorksOnFirst'
  BY DEF WorksOnFirst
<1>5. MonitorsFirst'
  BY DEF MonitorsFirst, Monitored
<1>6. StillReadable'
  BY DEF StillReadable
<1> QED
  BY <1>1, <1>2, <1>3, <1>4, <1>5, <1>6

\* A server that has lost its order does not find it again.
LEMMA OrderlyBefore == ASSUME Next, Orderly' PROVE Orderly
<1>1. ASSUME overlapped PROVE overlapped'
  <2>1. CASE Mng
    BY <1>1, <2>1 DEF Mng, CopyFds, Select, Accept, Probe, Fill, GoOnline,
       InitFifo, LoadToSet, Set, Scan, TestOnline, Recv, Store, ClearFd,
       LoadToClear, Unset, Delete, Find, TestPosition, Decrement, Close,
       Offline, Free, kernel
  <2>2. CASE Keep
    BY <1>1, <2>2 DEF Keep, BeginPass, CheckRow, EndPass, Reap, Reread, Beat,
       ClearFd, LoadToClear, Unset, Delete, Find, TestPosition, Decrement,
       Close, Offline, Free, kernel
  <2>3. CASE Environment
    BY <1>1, <2>3 DEF Environment, Tick, Expire, Answer, Connect, Send, Leave, kernel
  <2> QED
    BY <2>1, <2>2, <2>3 DEF Next
<1> QED
  BY <1>1, ReapedStays DEF Orderly

LEMMA MngServed ==
  ASSUME TCP_MAX_CLIENT >= 2, IndInv, MonitorsOpen, Served, Mng PROVE Served'
BY CopyFdsServed, SelectServed, AcceptServed, ProbeServed, FillServed,
   GoOnlineServed, InitFifoServed, LoadToSetServed, SetServed, ScanServed,
   TestOnlineServed, RecvServed, StoreServed, LoadToClearServed, UnsetServed,
   FindServed, PositionServed, CloseServed, OfflineServed, FreeServed DEF Mng,
   ClearFd, Delete

LEMMA KeepServed ==
  ASSUME TCP_MAX_CLIENT >= 2, IndInv, MonitorsOpen, Served, Keep PROVE Served'
<1>1. ~Delete("keep") /\ ~ClearFd("keep") /\ ~Reap /\ ~Reread
  BY DEF MonitorsOpen, Delete, ClearFd, Find, TestPosition, Decrement, Close,
     Offline, Free, LoadToClear, Unset, Reap, Reread, At
<1> QED
  BY <1>1, KeepLoopServed, BeatServed DEF Keep

LEMMA EnvironmentServed ==
  ASSUME TCP_MAX_CLIENT >= 2, IndInv, MonitorsOpen, Served, Environment, Orderly'
  PROVE  Served'
BY TickServed, ExpireServed, AnswerServed, ConnectServed, SendServed, LeaveServed
   DEF Environment

LEMMA StepOrderlyInv ==
  ASSUME TCP_MAX_CLIENT >= 2, IndInv, UnreapedInv, OrderlyInv, [Next]_vars
  PROVE  OrderlyInv'
<1> SUFFICES ASSUME Orderly' PROVE Served'
  BY DEF OrderlyInv
<1>1. CASE Next
  <2>1. Served /\ MonitorsOpen
    BY <1>1, OrderlyBefore DEF OrderlyInv, UnreapedInv, Orderly
  <2> QED
    BY <1>1, <2>1, MngServed, KeepServed, EnvironmentServed DEF Next
<1>2. CASE UNCHANGED vars
  <2>1. Served
    BY <1>2 DEF vars, keepvars, kernel, OrderlyInv, Orderly
  <2> QED
    BY <1>2, <2>1 DEF vars, server, threadvars, mngvars, keepvars, kernel,
       Served, OnlyFirst, WaitsOnce, RowIsConnection, WorksOnFirst,
       MonitorsFirst, Monitored, StillReadable, InUse
<1> QED
  BY <1>1, <1>2

-----------------------------------------------------------------------------
\* The inductive invariant of the orderly server.
THEOREM OrderlyInvariance == TCP_MAX_CLIENT >= 2 /\ Spec => []OrderlyInv
<1> SUFFICES ASSUME TCP_MAX_CLIENT >= 2 PROVE Spec => []OrderlyInv
  OBVIOUS
<1>1. Init => OrderlyInv
  BY InitServed DEF OrderlyInv
<1>2. IndInv /\ UnreapedInv /\ OrderlyInv /\ [Next]_vars => OrderlyInv'
  BY StepOrderlyInv
<1> QED
  BY <1>1, <1>2, Invariance, PTL DEF Spec

\* On an orderly server what is stored into a row's fifo are bytes of that
\* row's client, or, after a reset, what happened to be in the buffer.
THEOREM FifoIsOwn == TCP_MAX_CLIENT >= 2 /\ Spec => []OwnFifo
<1> SUFFICES ASSUME TCP_MAX_CLIENT >= 2 PROVE Spec => []OwnFifo
  OBVIOUS
<1>1. OrderlyInv => OwnFifo
  BY DEF OrderlyInv, Served, WorksOnFirst, OwnFifo
<1> QED
  BY <1>1, OrderlyInvariance, PTL

\* On an orderly server an online row is, between two rounds of the managing
\* thread, the open connection of the row's client: who left is no longer there,
\* whichever way it left and however soon the next one came.
THEOREM RowIsConnected == TCP_MAX_CLIENT >= 2 /\ Spec => []OrderlyRowIsConnected
<1> SUFFICES ASSUME TCP_MAX_CLIENT >= 2 PROVE Spec => []OrderlyRowIsConnected
  OBVIOUS
<1>1. OrderlyInv => OrderlyRowIsConnected
  <2> SUFFICES ASSUME Served, pc["mng"] = "copy", NEW i \in Rows, table[i].is_online
               PROVE  table[i].client_fd \in Fds
                      /\ sock[table[i].client_fd] = table[i].client_addr
    BY DEF OrderlyInv, OrderlyRowIsConnected, OnlineRowIsConnected
  <2>1. i = 0
    BY DEF Served, OnlyFirst
  <2> QED
    BY <2>1 DEF Served, RowIsConnection
<1> QED
  BY <1>1, OrderlyInvariance, PTL

\* The listening socket stays in the monitored set whatever the threads lose of
\* each other's updates, and on an orderly server within select's range.
THEOREM ListensOn == TCP_MAX_CLIENT >= 2 /\ Spec => []StillListening
<1> SUFFICES ASSUME TCP_MAX_CLIENT >= 2 PROVE Spec => []StillListening
  OBVIOUS
<1>1. IndInv /\ OrderlyInv => StillListening
  <2> SUFFICES ASSUME IndInv, OrderlyInv PROVE StillListening
    OBVIOUS
  <2>1. ListenFd \in serve_fds
    BY DEF IndInv, BaseInv, ListenerKept
  <2>2. Orderly => max_fd >= ListenFd
    BY Basics DEF OrderlyInv, Served, MonitorsFirst
  <2> QED
    BY <2>1, <2>2 DEF StillListening
<1> QED
  BY <1>1, Invariance, OrderlyInvariance, PTL
=============================================================================
