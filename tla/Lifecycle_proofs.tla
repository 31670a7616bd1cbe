-------------------------- MODULE Lifecycle_proofs --------------------------
(***************************************************************************)
(* The order of the calls in main.c and app.c carries these proofs, for a  *)
(* queue and a table of any size and every interleaving: every flag is set *)
(* before main waits, mng has ended before main's own tcp_server_stop      *)
(* goes through the rows, and what that stop left out tcp_server_deinit    *)
(* does not reach.                                                         *)
(***************************************************************************)
EXTENDS Lifecycle, SequenceTheorems, TLAPS

StartCalls(b) == {"create", "set"} \X Threads[b] \cup {Arm}
JoinCalls(b) == {"join"} \X Threads[b]
StopCalls(b) ==
  {"clear"} \X Threads[b] \cup {Disarm}
    \cup IF b = "server" THEN {"tell"} \X Row ELSE {}
EndCalls(b) ==
  StopCalls(b) \cup {"deinit"} \X Parts \cup {Exit}
    \cup IF b = "server" THEN {"free"} \X Row ELSE {}
AnyCall(b) == StartCalls(b) \cup JoinCalls(b) \cup EndCalls(b)

-----------------------------------------------------------------------------
(* The calls.                                                              *)

LEMMA ThreadsOf ==
  /\ Threads["client"] = {"app", "led", "connect", "keep", "commit",
                          "recive", "handle", "send"}
  /\ Threads["server"] = {"app", "mng", "keep"}
  /\ \A b \in Builds : Threads[b] \subseteq AllThreads
BY DEF Threads, Builds, Uart, AllThreads

\* Where the calls of two lists, of m and of n calls, are when they are put
\* together.
Together(C, K, S, m, T, n) ==
  /\ C \in Seq(K) /\ Len(C) = m + n
  /\ \A i \in 1 .. m : C[i] = S[i]
  /\ \A i \in 1 .. n : C[m + i] = T[i]

LEMMA Cat ==
  ASSUME NEW K, NEW S \in Seq(K), NEW T \in Seq(K),
         NEW m \in Nat, NEW n \in Nat, Len(S) = m, Len(T) = n
  PROVE  Together(S \o T, K, S, m, T, n)
<1>1. S \o T \in Seq(K) /\ Len(S \o T) = Len(S) + Len(T)
  BY ConcatProperties
<1>2. \A j \in 1 .. Len(S) + Len(T) :
        (S \o T)[j] = IF j <= Len(S) THEN S[j] ELSE T[j - Len(S)]
  BY ConcatProperties
<1> DEFINE C == S \o T
<1> HIDE DEF C
<1>3. \A j \in 1 .. m + n : C[j] = IF j <= m THEN S[j] ELSE T[j - m]
  BY <1>2 DEF C
<1>4. \A i \in 1 .. m : C[i] = S[i]
  BY <1>3
<1>5. ASSUME NEW i \in 1 .. n PROVE C[m + i] = T[i]
  <2>1. m + i \in 1 .. m + n /\ ~(m + i <= m) /\ (m + i) - m = i
    OBVIOUS
  <2> QED BY <1>3, <2>1
<1> QED
  BY <1>1, <1>4, <1>5 DEF C, Together

LEMMA RowLoops ==
  /\ TellRows \in Seq(AnyCall("server")) /\ FreeRows \in Seq(AnyCall("server"))
  /\ Len(TellRows) = Rows /\ Len(FreeRows) = Rows
  /\ \A n \in 1 .. Rows : TellRows[n] = <<"tell", n - 1>> /\ FreeRows[n] = <<"free", n - 1>>
<1> DEFINE K == AnyCall("server")
<1>1. \A n \in 1 .. Rows : n - 1 \in Row
  BY RowsAssumption DEF Row
<1>2. \A k \in Row : <<"tell", k>> \in K /\ <<"free", k>> \in K
  BY DEF AnyCall, EndCalls, StopCalls
<1> HIDE DEF K
<1>3. TellRows \in [1 .. Rows -> K] /\ FreeRows \in [1 .. Rows -> K]
  BY <1>1, <1>2 DEF TellRows, FreeRows
<1>4. TellRows \in Seq(K) /\ FreeRows \in Seq(K) /\ Len(TellRows) = Rows /\ Len(FreeRows) = Rows
  BY <1>3, RowsAssumption
<1>5. \A n \in 1 .. Rows : TellRows[n] = <<"tell", n - 1>> /\ FreeRows[n] = <<"free", n - 1>>
  BY DEF TellRows, FreeRows
<1> QED
  BY <1>4, <1>5 DEF K

\* tcp_server_stop's calls.
LEMMA ServerStop ==
  /\ tcp_server_stop \in Seq(AnyCall("server")) /\ Len(tcp_server_stop) = Rows + 3
  /\ tcp_server_stop[1] = Clear("mng") /\ tcp_server_stop[2] = Clear("keep")
  /\ \A k \in Row : tcp_server_stop[3 + k] = <<"tell", k>>
  /\ tcp_server_stop[Rows + 3] = Disarm
<1> DEFINE K == AnyCall("server")
           A == <<Clear("mng"), Clear("keep")>>
           B == A \o TellRows
           C == <<Disarm>>
<1>1. A \in Seq(K) /\ C \in Seq(K)
  BY ThreadsOf DEF Clear, AnyCall, EndCalls, StopCalls
<1>2. Len(A) = 2 /\ Len(C) = 1 /\ A[1] = Clear("mng") /\ A[2] = Clear("keep") /\ C[1] = Disarm
  OBVIOUS
<1>3. tcp_server_stop = B \o C
  BY DEF tcp_server_stop
<1>4. TellRows \in Seq(K) /\ Len(TellRows) = Rows /\ Rows \in Nat
  BY RowLoops, RowsAssumption
<1> HIDE DEF A, C, K
<1>5. Together(B, K, A, 2, TellRows, Rows)
  BY <1>1, <1>2, <1>4, Cat
<1> HIDE DEF B
<1>6. Together(B \o C, K, B, Rows + 2, C, 1)
  <2>1. B \in Seq(K) /\ Len(B) = Rows + 2 /\ Rows + 2 \in Nat
    BY <1>4, <1>5 DEF Together
  <2> QED BY <1>1, <1>2, <2>1, Cat
<1>7. (B \o C)[1] = A[1] /\ (B \o C)[2] = A[2]
  BY <1>4, <1>5, <1>6 DEF Together
<1>8. (B \o C)[Rows + 3] = Disarm
  <2>1. Rows + 2 + 1 = Rows + 3
    BY <1>4
  <2>2. 1 \in 1 .. 1
    OBVIOUS
  <2>3. (B \o C)[Rows + 2 + 1] = C[1]
    BY <1>6, <2>2, Zenon DEF Together
  <2> QED BY <1>2, <2>1, <2>3
<1>9. ASSUME NEW k \in Row PROVE (B \o C)[3 + k] = <<"tell", k>>
  <2>1. k + 1 \in 1 .. Rows /\ 2 + (k + 1) = 3 + k /\ 3 + k \in 1 .. Rows + 2 /\ (k + 1) - 1 = k
    BY <1>4 DEF Row
  <2>2. (B \o C)[3 + k] = TellRows[k + 1]
    BY <1>5, <1>6, <2>1 DEF Together
  <2>3. TellRows[k + 1] = <<"tell", (k + 1) - 1>>
    BY <2>1, RowLoops
  <2> QED BY <2>1, <2>2, <2>3
<1>10. B \o C \in Seq(K) /\ Len(B \o C) = Rows + 3
  BY <1>4, <1>6 DEF Together
<1> QED
  BY <1>2, <1>3, <1>7, <1>8, <1>9, <1>10 DEF K

\* state_system's calls, in the server.
LEMMA ServerStops ==
  /\ Stop["server"] \in Seq(AnyCall("server")) /\ Len(Stop["server"]) = Rows + 4
  /\ Stop["server"][1] = Clear("mng") /\ Stop["server"][2] = Clear("keep")
  /\ \A k \in Row : Stop["server"][3 + k] = <<"tell", k>>
  /\ Stop["server"][Rows + 3] = Disarm /\ Stop["server"][Rows + 4] = Clear("app")
<1> DEFINE K == AnyCall("server")
           A == tcp_server_stop
           B == app_stop
<1>1. B \in Seq(K) /\ Len(B) = 1 /\ B[1] = Clear("app")
  BY ThreadsOf DEF app_stop, Clear, AnyCall, EndCalls, StopCalls
<1>2. Stop["server"] = A \o B
  BY DEF Stop, Builds
<1>3. A \in Seq(K) /\ Len(A) = Rows + 3 /\ Rows \in Nat \ {0}
  BY ServerStop, RowsAssumption
<1> HIDE DEF A, B, K
<1>4. Together(A \o B, K, A, Rows + 3, B, 1)
  <2>1. Rows + 3 \in Nat
    BY <1>3
  <2> QED BY <1>1, <1>3, <2>1, Cat
<1>5. (A \o B)[Rows + 4] = Clear("app")
  <2>1. Rows + 3 + 1 = Rows + 4
    BY <1>3
  <2> QED BY <1>1, <1>4, <2>1 DEF Together
<1>6. (A \o B)[1] = A[1] /\ (A \o B)[2] = A[2] /\ (A \o B)[Rows + 3] = A[Rows + 3]
  BY <1>3, <1>4 DEF Together
<1>7. \A k \in Row : (A \o B)[3 + k] = A[3 + k]
  BY <1>3, <1>4 DEF Row, Together
<1>8. A \o B \in Seq(K) /\ Len(A \o B) = Rows + 4
  BY <1>3, <1>4 DEF Together
<1> QED
  BY <1>2, <1>5, <1>6, <1>7, <1>8, ServerStop DEF A, K

\* What the server's main calls after its joins.
LEMMA ServerEnd ==
  /\ End["server"] \in Seq(AnyCall("server")) /\ Len(End["server"]) = 2 * Rows + 7
  /\ End["server"][1] = Clear("app")
  /\ End["server"][2] = Clear("mng") /\ End["server"][3] = Clear("keep")
  /\ \A k \in Row : End["server"][4 + k] = <<"tell", k>>
  /\ End["server"][Rows + 4] = Disarm /\ End["server"][Rows + 5] = Deinit("msg")
  /\ \A k \in Row : End["server"][Rows + 6 + k] = <<"free", k>>
  /\ End["server"][2 * Rows + 6] = Deinit("inet") /\ End["server"][2 * Rows + 7] = Exit
<1> DEFINE K == AnyCall("server")
           A == app_stop
           B == tcp_server_stop
           M == <<Deinit("msg")>>
           I == <<Deinit("inet")>>
           X == <<Exit>>
           D == FreeRows \o I
           AB == A \o B
           ABM == AB \o M
           ABMD == ABM \o D
<1>1. /\ A \in Seq(K) /\ Len(A) = 1 /\ A[1] = Clear("app")
      /\ M \in Seq(K) /\ Len(M) = 1 /\ M[1] = Deinit("msg")
      /\ I \in Seq(K) /\ Len(I) = 1 /\ I[1] = Deinit("inet")
      /\ X \in Seq(K) /\ Len(X) = 1 /\ X[1] = Exit
  <2>1. Clear("app") \in K /\ Deinit("msg") \in K /\ Deinit("inet") \in K /\ Exit \in K
    BY ThreadsOf DEF Clear, Deinit, AnyCall, EndCalls, StopCalls, Parts
  <2> HIDE DEF K
  <2> QED BY <2>1 DEF app_stop
<1>2. End["server"] = ABMD \o X
  BY DEF End, Builds, tcp_server_deinit
<1>3. B \in Seq(K) /\ Len(B) = Rows + 3 /\ Rows \in Nat \ {0}
  BY ServerStop, RowsAssumption
<1>4. FreeRows \in Seq(K) /\ Len(FreeRows) = Rows
  BY RowLoops
<1> HIDE DEF A, B, M, I, X, K
<1>5. Together(D, K, FreeRows, Rows, I, 1)
  BY <1>1, <1>3, <1>4, Cat
<1>6. Together(AB, K, A, 1, B, Rows + 3)
  <2>1. Rows + 3 \in Nat
    BY <1>3
  <2> QED BY <1>1, <1>3, <2>1, Cat
<1> HIDE DEF D, AB
<1>7. Together(ABM, K, AB, Rows + 4, M, 1)
  <2>1. AB \in Seq(K) /\ Len(AB) = Rows + 4 /\ Rows + 4 \in Nat
    BY <1>3, <1>6 DEF Together
  <2> QED BY <1>1, <2>1, Cat
<1> HIDE DEF ABM
<1>8. Together(ABMD, K, ABM, Rows + 5, D, Rows + 1)
  <2>1. ABM \in Seq(K) /\ Len(ABM) = Rows + 5 /\ Rows + 5 \in Nat
    BY <1>3, <1>7 DEF Together
  <2>2. D \in Seq(K) /\ Len(D) = Rows + 1 /\ Rows + 1 \in Nat
    BY <1>3, <1>5 DEF Together
  <2> QED BY <2>1, <2>2, Cat
<1> HIDE DEF ABMD
<1>9. Together(ABMD \o X, K, ABMD, 2 * Rows + 6, X, 1)
  <2>1. ABMD \in Seq(K) /\ Len(ABMD) = 2 * Rows + 6 /\ 2 * Rows + 6 \in Nat
    BY <1>3, <1>8 DEF Together
  <2> QED BY <1>1, <2>1, Cat
<1> DEFINE E == ABMD \o X
<1>10. \A i \in 1 .. Rows + 4 : E[i] = AB[i]
  BY <1>3, <1>7, <1>8, <1>9 DEF Together
<1>11. \A i \in 1 .. Rows + 1 : E[Rows + 5 + i] = D[i]
  <2> SUFFICES ASSUME NEW i \in 1 .. Rows + 1 PROVE E[Rows + 5 + i] = D[i]
    OBVIOUS
  <2>1. Rows + 5 + i \in 1 .. 2 * Rows + 6
    BY <1>3
  <2> QED BY <1>8, <1>9, <2>1 DEF Together
<1> HIDE DEF E
<1>12. E[1] = Clear("app")
  BY <1>1, <1>3, <1>6, <1>10 DEF Together
<1>13. \A i \in 1 .. Rows + 3 : E[1 + i] = B[i]
  <2> SUFFICES ASSUME NEW i \in 1 .. Rows + 3 PROVE E[1 + i] = B[i]
    OBVIOUS
  <2>1. 1 + i \in 1 .. Rows + 4
    BY <1>3
  <2> QED BY <1>6, <1>10, <2>1 DEF Together
<1>14. E[2] = Clear("mng") /\ E[3] = Clear("keep") /\ E[Rows + 4] = Disarm
  <2>1. /\ 1 \in 1 .. Rows + 3 /\ 2 \in 1 .. Rows + 3 /\ Rows + 3 \in 1 .. Rows + 3
        /\ 1 + 1 = 2 /\ 1 + 2 = 3 /\ 1 + (Rows + 3) = Rows + 4
    BY <1>3
  <2>2. E[1 + 1] = B[1] /\ E[1 + 2] = B[2] /\ E[1 + (Rows + 3)] = B[Rows + 3]
    BY <1>13, <2>1
  <2> QED BY <2>1, <2>2, ServerStop DEF B
<1>15. ASSUME NEW k \in Row PROVE E[4 + k] = <<"tell", k>>
  <2>1. 3 + k \in 1 .. Rows + 3 /\ 1 + (3 + k) = 4 + k
    BY <1>3 DEF Row
  <2>2. E[1 + (3 + k)] = B[3 + k]
    BY <1>13, <2>1
  <2> QED BY <2>1, <2>2, ServerStop DEF B
<1>16. E[Rows + 5] = Deinit("msg")
  <2>1. Rows + 5 \in 1 .. Rows + 5 /\ Rows + 5 \in 1 .. 2 * Rows + 6 /\ Rows + 4 + 1 = Rows + 5
    BY <1>3
  <2>2. 1 \in 1 .. 1
    OBVIOUS
  <2>3. ABM[Rows + 4 + 1] = M[1]
    BY <1>7, <2>2, Zenon DEF Together
  <2>4. E[Rows + 5] = ABMD[Rows + 5] /\ ABMD[Rows + 5] = ABM[Rows + 5]
    BY <1>8, <1>9, <2>1, Zenon DEF E, Together
  <2> QED BY <1>1, <2>1, <2>3, <2>4
<1>17. ASSUME NEW k \in Row PROVE E[Rows + 6 + k] = <<"free", k>>
  <2>1. /\ k + 1 \in 1 .. Rows + 1 /\ k + 1 \in 1 .. Rows
        /\ Rows + 5 + (k + 1) = Rows + 6 + k /\ (k + 1) - 1 = k
    BY <1>3 DEF Row
  <2>2. E[Rows + 5 + (k + 1)] = FreeRows[k + 1]
    BY <1>5, <1>11, <2>1 DEF Together
  <2>3. FreeRows[k + 1] = <<"free", (k + 1) - 1>>
    BY <2>1, RowLoops
  <2> QED BY <2>1, <2>2, <2>3
<1>18. E[2 * Rows + 6] = Deinit("inet")
  <2>1. Rows + 1 \in 1 .. Rows + 1 /\ Rows + 5 + (Rows + 1) = 2 * Rows + 6
    BY <1>3
  <2> QED BY <1>1, <1>5, <1>11, <2>1 DEF Together
<1>19. E[2 * Rows + 7] = Exit
  <2>1. 2 * Rows + 6 + 1 = 2 * Rows + 7
    BY <1>3
  <2>2. 1 \in 1 .. 1
    OBVIOUS
  <2>3. E[2 * Rows + 6 + 1] = X[1]
    BY <1>9, <2>2, Zenon DEF E, Together
  <2> QED BY <1>1, <2>1, <2>3
<1>20. End["server"] = E
  BY <1>2 DEF E
<1>21. E \in Seq(K) /\ Len(E) = 2 * Rows + 7
  BY <1>3, <1>9 DEF E, Together
<1> QED
  BY <1>12, <1>14, <1>15, <1>16, <1>17, <1>18, <1>19, <1>20, <1>21 DEF K

\* main sets the flag of every thread of the program before it waits for any.
LEMMA StartTyped ==
  /\ \A b \in Builds :
       /\ Start[b] \in Seq(StartCalls(b))
       /\ \A t \in Threads[b] : \E j \in 1 .. Len(Start[b]) : Start[b][j] = Set(t)
  /\ Len(Start["server"]) = 7 /\ Len(Start["client"]) = 17
<1>1. /\ Start["client"] \in Seq(StartCalls("client")) /\ Len(Start["client"]) = 17
      /\ \A t \in Threads["client"] : \E j \in 1 .. 17 : Start["client"][j] = Set(t)
  <2> DEFINE K == StartCalls("client")
             A == app_start
             L == app_led_start
             U == tty_start
             C == tcp_client_start
             AL == A \o L
             ALU == AL \o U
  <2>1. A \in Seq(K) /\ Len(A) = 2 /\ L \in Seq(K) /\ Len(L) = 2
    BY ThreadsOf DEF app_start, app_led_start, Create, Set, StartCalls
  <2>2. U \in Seq(K) /\ Len(U) = 6
    BY ThreadsOf DEF tty_start, Create, Set, StartCalls
  <2>3. C \in Seq(K) /\ Len(C) = 7
    BY ThreadsOf DEF tcp_client_start, Create, Set, StartCalls
  <2>4. /\ A[2] = Set("app") /\ L[1] = Set("led")
        /\ U[4] = Set("recive") /\ U[5] = Set("handle") /\ U[6] = Set("send")
        /\ C[5] = Set("connect") /\ C[6] = Set("keep") /\ C[7] = Set("commit")
    BY DEF app_start, app_led_start, tty_start, tcp_client_start
  <2>5. Start["client"] = ALU \o C
    BY DEF Start, Builds
  <2> HIDE DEF K, A, L, U, C
  <2>6. Together(AL, K, A, 2, L, 2)
    BY <2>1, Cat
  <2>7. AL \in Seq(K) /\ Len(AL) = 4 /\ AL[2] = A[2] /\ AL[3] = L[1]
    <3>1. 2 + 1 = 3 /\ 1 \in 1 .. 2 /\ 2 \in 1 .. 2 /\ 2 + 2 = 4
      OBVIOUS
    <3>2. AL[2 + 1] = L[1] /\ AL[2] = A[2] /\ Len(AL) = 2 + 2 /\ AL \in Seq(K)
      BY <2>6, <3>1, Zenon DEF Together
    <3> QED BY <3>1, <3>2
  <2> HIDE DEF AL
  <2>8. Together(ALU, K, AL, 4, U, 6)
    BY <2>2, <2>7, Cat
  <2>9. /\ ALU \in Seq(K) /\ Len(ALU) = 10 /\ ALU[2] = A[2] /\ ALU[3] = L[1]
        /\ ALU[8] = U[4] /\ ALU[9] = U[5] /\ ALU[10] = U[6]
    <3>1. /\ 4 + 4 = 8 /\ 4 + 5 = 9 /\ 4 + 6 = 10 /\ 2 \in 1 .. 4 /\ 3 \in 1 .. 4
          /\ 4 \in 1 .. 6 /\ 5 \in 1 .. 6 /\ 6 \in 1 .. 6
      OBVIOUS
    <3>2. /\ ALU \in Seq(K) /\ Len(ALU) = 4 + 6 /\ ALU[2] = AL[2] /\ ALU[3] = AL[3]
          /\ ALU[4 + 4] = U[4] /\ ALU[4 + 5] = U[5] /\ ALU[4 + 6] = U[6]
      BY <2>8, <3>1, Zenon DEF Together
    <3> QED BY <2>7, <3>1, <3>2
  <2> HIDE DEF ALU
  <2>10. Together(ALU \o C, K, ALU, 10, C, 7)
    BY <2>3, <2>9, Cat
  <2> DEFINE S == ALU \o C
  <2> HIDE DEF S
  <2>11. /\ S \in Seq(K) /\ Len(S) = 17 /\ S[2] = A[2] /\ S[3] = L[1]
         /\ S[8] = U[4] /\ S[9] = U[5] /\ S[10] = U[6]
         /\ S[15] = C[5] /\ S[16] = C[6] /\ S[17] = C[7]
    <3>1. /\ 10 + 5 = 15 /\ 10 + 6 = 16 /\ 10 + 7 = 17
          /\ 2 \in 1 .. 10 /\ 3 \in 1 .. 10 /\ 8 \in 1 .. 10 /\ 9 \in 1 .. 10
          /\ 10 \in 1 .. 10 /\ 5 \in 1 .. 7 /\ 6 \in 1 .. 7 /\ 7 \in 1 .. 7
      OBVIOUS
    <3>2. /\ S \in Seq(K) /\ Len(S) = 10 + 7 /\ S[2] = ALU[2] /\ S[3] = ALU[3]
          /\ S[8] = ALU[8] /\ S[9] = ALU[9] /\ S[10] = ALU[10]
          /\ S[10 + 5] = C[5] /\ S[10 + 6] = C[6] /\ S[10 + 7] = C[7]
      BY <2>10, <3>1, Zenon DEF Together, S
    <3> QED BY <2>9, <3>1, <3>2
  <2>12. ASSUME NEW t \in Threads["client"] PROVE \E j \in 1 .. 17 : S[j] = Set(t)
    BY <2>4, <2>11, <2>12, ThreadsOf
  <2> QED BY <2>5, <2>11, <2>12 DEF S, K
<1>2. /\ Start["server"] \in Seq(StartCalls("server")) /\ Len(Start["server"]) = 7
      /\ \A t \in Threads["server"] : \E j \in 1 .. 7 : Start["server"][j] = Set(t)
  <2> DEFINE K == StartCalls("server")
             A == app_start
             C == tcp_server_start
  <2>1. A \in Seq(K) /\ Len(A) = 2 /\ C \in Seq(K) /\ Len(C) = 5
    BY ThreadsOf DEF app_start, tcp_server_start, Create, Set, StartCalls
  <2>2. A[2] = Set("app") /\ C[4] = Set("mng") /\ C[5] = Set("keep")
    BY DEF app_start, tcp_server_start
  <2>3. Start["server"] = A \o C
    BY DEF Start, Builds
  <2> HIDE DEF K, A, C
  <2>4. Together(A \o C, K, A, 2, C, 5)
    BY <2>1, Cat
  <2> DEFINE S == A \o C
  <2> HIDE DEF S
  <2>5. S \in Seq(K) /\ Len(S) = 7 /\ S[2] = A[2] /\ S[6] = C[4] /\ S[7] = C[5]
    <3>1. /\ 2 + 4 = 6 /\ 2 + 5 = 7 /\ 2 \in 1 .. 2 /\ 4 \in 1 .. 5 /\ 5 \in 1 .. 5
      OBVIOUS
    <3>2. /\ S \in Seq(K) /\ Len(S) = 2 + 5 /\ S[2] = A[2]
          /\ S[2 + 4] = C[4] /\ S[2 + 5] = C[5]
      BY <2>4, <3>1, Zenon DEF Together, S
    <3> QED BY <3>1, <3>2
  <2>6. ASSUME NEW t \in Threads["server"] PROVE \E j \in 1 .. 7 : S[j] = Set(t)
    BY <2>2, <2>5, <2>6, ThreadsOf
  <2> QED BY <2>3, <2>5, <2>6 DEF S, K
<1> QED BY <1>1, <1>2 DEF Builds

LEMMA JoinsTyped ==
  /\ \A b \in Builds : Joins[b] \in Seq(JoinCalls(b))
  /\ Len(Joins["client"]) = 8 /\ Len(Joins["server"]) = 3
  /\ Joins["server"][2] = Join("mng")
<1>1. Joins["client"] = <<Join("app"), Join("recive"), Join("handle"), Join("send"),
                          Join("led"), Join("connect"), Join("keep"), Join("commit")>>
  BY DEF Joins, Builds
<1>2. Joins["server"] = <<Join("app"), Join("mng"), Join("keep")>>
  BY DEF Joins, Builds
<1>3. /\ Joins["client"] \in Seq(JoinCalls("client"))
      /\ Joins["server"] \in Seq(JoinCalls("server"))
  BY <1>1, <1>2, ThreadsOf DEF Join, JoinCalls
<1>4. /\ Len(Joins["client"]) = 8 /\ Len(Joins["server"]) = 3
      /\ Joins["server"][2] = Join("mng")
  BY <1>1, <1>2
<1> QED BY <1>3, <1>4 DEF Builds

LEMMA ClientStops ==
  /\ Stop["client"] \in Seq(StopCalls("client"))
  /\ Len(Stop["client"]) \in Nat
<1> DEFINE K == StopCalls("client")
<1>1. tcp_client_stop \in Seq(K) /\ tty_stop \in Seq(K)
  BY ThreadsOf DEF tcp_client_stop, tty_stop, Clear, StopCalls
<1>2. app_led_stop \in Seq(K) /\ app_stop \in Seq(K)
  BY ThreadsOf DEF app_led_stop, app_stop, Clear, StopCalls
<1> HIDE DEF K
<1>3. Stop["client"] = tcp_client_stop \o tty_stop \o app_led_stop \o app_stop
  BY DEF Stop, Builds
<1>4. Stop["client"] \in Seq(K)
  BY <1>1, <1>2, <1>3, ConcatProperties
<1> QED BY <1>4, LenProperties DEF K

LEMMA ClientEnd == End["client"] \in Seq(EndCalls("client"))
<1> DEFINE K == EndCalls("client")
           F == <<Deinit("uart"), Deinit("led"), Deinit("msg"), Deinit("inet"), Exit>>
<1>1. tcp_client_stop \in Seq(K) /\ tty_stop \in Seq(K)
  BY ThreadsOf DEF tcp_client_stop, tty_stop, Clear, StopCalls, EndCalls
<1>2. app_led_stop \in Seq(K) /\ app_stop \in Seq(K)
  BY ThreadsOf DEF app_led_stop, app_stop, Clear, StopCalls, EndCalls
<1>3. F \in Seq(K)
  BY DEF Deinit, EndCalls, Parts
<1>4. End["client"] = tty_stop \o app_led_stop \o app_stop \o tcp_client_stop \o F
  BY DEF End, Builds
<1> HIDE DEF K, F
<1> QED BY <1>1, <1>2, <1>3, <1>4, ConcatProperties DEF K

LS(b) == Len(Start[b])
LJ(b) == Len(Joins[b])
LE(b) == Len(End[b])

\* main's calls in their order: it starts the threads, joins them, and ends.
LEMMA CallAt ==
  ASSUME NEW b \in Builds
  PROVE  /\ LS(b) \in Nat /\ LJ(b) \in Nat /\ LE(b) \in Nat
         /\ Len(Calls[b]) = LS(b) + LJ(b) + LE(b)
         /\ \A i \in 1 .. LS(b) : Calls[b][i] = Start[b][i] /\ Calls[b][i] \in StartCalls(b)
         /\ \A i \in 1 .. LJ(b) : /\ Calls[b][LS(b) + i] = Joins[b][i]
                                  /\ Calls[b][LS(b) + i] \in JoinCalls(b)
         /\ \A i \in 1 .. LE(b) : Calls[b][LS(b) + LJ(b) + i] = End[b][i]
<1> DEFINE K == AnyCall(b)
           S == Start[b]
           J == Joins[b]
           E == End[b]
           SJ == S \o J
<1>1. S \in Seq(StartCalls(b)) /\ J \in Seq(JoinCalls(b))
  BY StartTyped, JoinsTyped
<1>2. S \in Seq(K) /\ J \in Seq(K)
  BY <1>1 DEF AnyCall
<1>3. E \in Seq(K)
  BY ServerEnd, ClientEnd DEF Builds, AnyCall
<1>4. Calls[b] = SJ \o E
  BY DEF Calls
<1> DEFINE m == Len(S)
           n == Len(J)
           k == Len(E)
<1>5. m \in Nat /\ n \in Nat /\ k \in Nat
  BY <1>2, <1>3, LenProperties
<1>6. Len(S) = m /\ Len(J) = n /\ Len(E) = k
  OBVIOUS
<1> HIDE DEF K, S, J, E, m, n, k
<1>7. Together(SJ, K, S, m, J, n)
  BY <1>2, <1>5, <1>6, Cat
<1>8. SJ \in Seq(K) /\ Len(SJ) = m + n /\ m + n \in Nat
  BY <1>5, <1>7 DEF Together
<1>9. Together(SJ \o E, K, SJ, m + n, E, k)
  BY <1>3, <1>5, <1>6, <1>8, Cat
<1>10. Len(SJ \o E) = m + n + k
  BY <1>9 DEF Together
<1>11. \A i \in 1 .. k : (SJ \o E)[m + n + i] = E[i]
  BY <1>9 DEF Together
<1>12. \A i \in 1 .. m + n : (SJ \o E)[i] = SJ[i]
  BY <1>9 DEF Together
<1>13. ASSUME NEW i \in 1 .. m
       PROVE  (SJ \o E)[i] = S[i] /\ S[i] \in StartCalls(b)
  <2>1. i \in 1 .. m + n
    BY <1>5
  <2> QED BY <1>1, <1>6, <1>7, <1>12, <2>1, ElementOfSeq DEF Together
<1>14. ASSUME NEW i \in 1 .. n
       PROVE  (SJ \o E)[m + i] = J[i] /\ J[i] \in JoinCalls(b)
  <2>1. m + i \in 1 .. m + n
    BY <1>5
  <2> QED BY <1>1, <1>6, <1>7, <1>12, <2>1, ElementOfSeq DEF Together
<1>15. LS(b) = m /\ LJ(b) = n /\ LE(b) = k
  BY DEF LS, LJ, LE, m, n, k, S, J, E
<1> QED
  BY <1>4, <1>5, <1>10, <1>11, <1>13, <1>14, <1>15 DEF S, J, E

\* Where the server's main goes through its rows.
LEMMA ServerCalls ==
  /\ Len(Calls["server"]) = 2 * Rows + 17 /\ LS("server") = 7 /\ LJ("server") = 3
  /\ \A k \in Row : /\ Calls["server"][14 + k] = <<"tell", k>>
                    /\ Calls["server"][Rows + 16 + k] = <<"free", k>>
  /\ \A i \in 1 .. 2 * Rows + 17 :
       LET c == Calls["server"][i]
       IN  /\ c \in AnyCall("server")
           /\ c \in StartCalls("server") => i <= 7
           /\ c \in JoinCalls("server") => i \in 8 .. 10
           /\ c[1] = "tell" => c[2] \in Row /\ i = 14 + c[2]
           /\ c[1] = "free" => c[2] \in Row /\ i = Rows + 16 + c[2]
<1> DEFINE C == Calls["server"]
           E == End["server"]
           N == 2 * Rows + 17
<1>1. "server" \in Builds /\ Rows \in Nat \ {0}
  BY RowsAssumption DEF Builds
<1>2. LS("server") = 7 /\ LJ("server") = 3 /\ LE("server") = 2 * Rows + 7
  BY StartTyped, JoinsTyped, ServerEnd DEF LS, LJ, LE
<1>3. Len(C) = 7 + 3 + (2 * Rows + 7)
  BY <1>1, <1>2, CallAt
<1>4. \A i \in 1 .. 7 : C[i] \in StartCalls("server")
  BY <1>1, <1>2, CallAt
<1>5. \A i \in 1 .. 3 : C[7 + i] \in JoinCalls("server")
  BY <1>1, <1>2, CallAt
<1>6. \A i \in 1 .. 2 * Rows + 7 : C[7 + 3 + i] = E[i]
  <2>1. \A i \in 1 .. LE("server") : C[LS("server") + LJ("server") + i] = E[i]
    BY <1>1, CallAt
  <2> HIDE DEF C, E
  <2> QED BY <1>2, <2>1
<1> HIDE DEF C, E
<1>7. ASSUME NEW i \in 8 .. 10 PROVE C[i] \in JoinCalls("server")
  <2>1. i - 7 \in 1 .. 3 /\ 7 + (i - 7) = i
    OBVIOUS
  <2> QED BY <1>5, <2>1
<1>8. ASSUME NEW i \in 11 .. N PROVE C[i] = E[i - 10]
  <2>1. i - 10 \in 1 .. 2 * Rows + 7 /\ 7 + 3 + (i - 10) = i
    BY <1>1
  <2> QED BY <1>6, <2>1
<1>9. ASSUME NEW k \in Row
      PROVE  C[14 + k] = <<"tell", k>> /\ C[Rows + 16 + k] = <<"free", k>>
  <2>1. /\ 14 + k \in 11 .. N /\ (14 + k) - 10 = 4 + k
        /\ Rows + 16 + k \in 11 .. N /\ (Rows + 16 + k) - 10 = Rows + 6 + k
    BY <1>1 DEF Row
  <2>2. C[14 + k] = E[4 + k] /\ C[Rows + 16 + k] = E[Rows + 6 + k]
    BY <1>8, <2>1
  <2> QED BY <2>2, ServerEnd DEF E
<1>10. /\ C[11] = Clear("app") /\ C[12] = Clear("mng") /\ C[13] = Clear("keep")
       /\ C[Rows + 14] = Disarm /\ C[Rows + 15] = Deinit("msg")
       /\ C[2 * Rows + 16] = Deinit("inet") /\ C[2 * Rows + 17] = Exit
  <2>1. /\ 11 \in 11 .. N /\ 12 \in 11 .. N /\ 13 \in 11 .. N
        /\ Rows + 14 \in 11 .. N /\ Rows + 15 \in 11 .. N
        /\ 2 * Rows + 16 \in 11 .. N /\ 2 * Rows + 17 \in 11 .. N
        /\ 11 - 10 = 1 /\ 12 - 10 = 2 /\ 13 - 10 = 3
        /\ (Rows + 14) - 10 = Rows + 4 /\ (Rows + 15) - 10 = Rows + 5
        /\ (2 * Rows + 16) - 10 = 2 * Rows + 6 /\ (2 * Rows + 17) - 10 = 2 * Rows + 7
    BY <1>1
  <2>2. C[11] = E[1] /\ C[12] = E[2] /\ C[13] = E[3]
    BY <1>8, <2>1
  <2>3. C[Rows + 14] = E[Rows + 4] /\ C[Rows + 15] = E[Rows + 5]
    BY <1>8, <2>1
  <2>4. C[2 * Rows + 16] = E[2 * Rows + 6] /\ C[2 * Rows + 17] = E[2 * Rows + 7]
    BY <1>8, <2>1
  <2> QED BY <2>2, <2>3, <2>4, ServerEnd DEF E
<1>11. ASSUME NEW i \in 1 .. N
       PROVE  \/ i \in 1 .. 7
              \/ i \in 8 .. 10
              \/ i \in {11, 12, 13, Rows + 14, Rows + 15, 2 * Rows + 16, 2 * Rows + 17}
              \/ \E k \in Row : i = 14 + k
              \/ \E k \in Row : i = Rows + 16 + k
  <2>1. CASE i \in 14 .. Rows + 13
    <3>1. i - 14 \in Row /\ i = 14 + (i - 14)
      BY <1>1, <2>1 DEF Row
    <3> QED BY <3>1
  <2>2. CASE i \in Rows + 16 .. 2 * Rows + 15
    <3>1. i - (Rows + 16) \in Row /\ i = Rows + 16 + (i - (Rows + 16))
      BY <1>1, <2>2 DEF Row
    <3> QED BY <3>1
  <2>3. CASE i \notin 14 .. Rows + 13 /\ i \notin Rows + 16 .. 2 * Rows + 15
    BY <1>1, <2>3
  <2> QED BY <2>1, <2>2, <2>3
<1>12. ASSUME NEW i \in 1 .. N
       PROVE  /\ C[i] \in AnyCall("server")
              /\ C[i] \in StartCalls("server") => i <= 7
              /\ C[i] \in JoinCalls("server") => i \in 8 .. 10
              /\ C[i][1] = "tell" => C[i][2] \in Row /\ i = 14 + C[i][2]
              /\ C[i][1] = "free" => C[i][2] \in Row /\ i = Rows + 16 + C[i][2]
  <2>1. CASE i \in 1 .. 7
    <3>1. C[i] \in StartCalls("server")
      BY <1>4, <2>1
    <3> QED BY <2>1, <3>1 DEF StartCalls, JoinCalls, AnyCall, Arm
  <2>2. CASE i \in 8 .. 10
    <3>1. C[i] \in JoinCalls("server")
      BY <1>7, <2>2
    <3> QED BY <2>2, <3>1 DEF StartCalls, JoinCalls, AnyCall, Arm
  <2>3. CASE i \in {11, 12, 13, Rows + 14, Rows + 15, 2 * Rows + 16, 2 * Rows + 17}
    <3>1. C[i] \in {Clear("app"), Clear("mng"), Clear("keep"), Disarm,
                    Deinit("msg"), Deinit("inet"), Exit}
      BY <1>10, <2>3
    <3>2. C[i] \in EndCalls("server")
      BY <3>1, ThreadsOf DEF Clear, Disarm, Deinit, Exit, EndCalls, StopCalls, Parts
    <3> QED BY <3>1, <3>2
        DEF StartCalls, JoinCalls, AnyCall, Arm, Clear, Disarm, Deinit, Exit
  <2>4. ASSUME NEW k \in Row, i = 14 + k
        PROVE  /\ C[i] = <<"tell", k>> /\ C[i] \in AnyCall("server")
               /\ C[i] \notin StartCalls("server") /\ C[i] \notin JoinCalls("server")
    <3>1. C[i] = <<"tell", k>>
      BY <1>9, <2>4
    <3> QED BY <3>1 DEF StartCalls, JoinCalls, AnyCall, EndCalls, StopCalls, Arm
  <2>5. ASSUME NEW k \in Row, i = Rows + 16 + k
        PROVE  /\ C[i] = <<"free", k>> /\ C[i] \in AnyCall("server")
               /\ C[i] \notin StartCalls("server") /\ C[i] \notin JoinCalls("server")
    <3>1. C[i] = <<"free", k>>
      BY <1>9, <2>5
    <3> QED BY <3>1 DEF StartCalls, JoinCalls, AnyCall, EndCalls, StopCalls, Arm
  <2> QED BY <1>11, <2>1, <2>2, <2>3, <2>4, <2>5
<1>13. Len(C) = N
  BY <1>1, <1>3
<1> QED
  BY <1>2, <1>9, <1>12, <1>13 DEF C

LEMMA ClientCalls ==
  /\ LS("client") = 17 /\ LJ("client") = 8
  /\ \A i \in 1 .. Len(Calls["client"]) :
       LET c == Calls["client"][i]
       IN  /\ c \in AnyCall("client")
           /\ c \in StartCalls("client") => i <= 17
           /\ c \in JoinCalls("client") => i > 17 /\ i <= 25
           /\ c[1] \notin {"tell", "free"}
<1> DEFINE C == Calls["client"]
           E == End["client"]
           n == LE("client")
<1>1. LS("client") = 17 /\ LJ("client") = 8 /\ "client" \in Builds
  BY StartTyped, JoinsTyped DEF LS, LJ, Builds
<1>2. n \in Nat /\ Len(C) = 17 + 8 + n
  BY <1>1, CallAt
<1>3. \A i \in 1 .. 17 : C[i] \in StartCalls("client")
  BY <1>1, CallAt
<1>4. \A i \in 1 .. 8 : C[17 + i] \in JoinCalls("client")
  BY <1>1, CallAt
<1>5. \A i \in 1 .. n : C[17 + 8 + i] = E[i]
  BY <1>1, CallAt
<1>6. \A i \in 1 .. n : E[i] \in EndCalls("client")
  BY ClientEnd, ElementOfSeq DEF LE
<1> HIDE DEF C, E, n
<1>7. ASSUME NEW i \in 1 .. Len(C)
      PROVE  /\ C[i] \in AnyCall("client")
             /\ C[i] \in StartCalls("client") => i <= 17
             /\ C[i] \in JoinCalls("client") => i > 17 /\ i <= 25
             /\ C[i][1] \notin {"tell", "free"}
  <2>1. CASE i <= 17
    <3>1. C[i] \in StartCalls("client")
      BY <1>2, <1>3, <2>1
    <3> QED BY <2>1, <3>1 DEF StartCalls, JoinCalls, AnyCall, Arm
  <2>2. CASE i > 17 /\ i <= 25
    <3>1. i - 17 \in 1 .. 8 /\ 17 + (i - 17) = i
      BY <2>2
    <3>2. C[i] \in JoinCalls("client")
      BY <1>4, <3>1
    <3> QED BY <2>2, <3>2 DEF StartCalls, JoinCalls, AnyCall, Arm
  <2>3. CASE i > 25
    <3>1. i - 25 \in 1 .. n /\ 17 + 8 + (i - 25) = i
      BY <1>2, <2>3
    <3>2. C[i] \in EndCalls("client")
      BY <1>5, <1>6, <3>1
    <3> QED BY <3>2 DEF StartCalls, JoinCalls, EndCalls, StopCalls, AnyCall,
                        Arm, Disarm, Exit
  <2> QED BY <2>1, <2>2, <2>3
<1> QED
  BY <1>1, <1>7 DEF C

\* state_system's calls, and where it goes through the rows.
LEMMA StopAt ==
  ASSUME NEW b \in Builds
  PROVE  /\ Len(Stop[b]) \in Nat /\ Len(Stop[b]) >= 1
         /\ \A i \in 1 .. Len(Stop[b]) :
              /\ Stop[b][i] \in StopCalls(b)
              /\ Stop[b][i][1] = "tell" =>
                   /\ b = "server" /\ Stop[b][i][2] \in Row
                   /\ i + (Rows - Stop[b][i][2]) \in 1 .. Len(Stop[b])
                   /\ i # Len(Stop[b])
              /\ Stop[b][i][1] # "free"
<1>1. CASE b = "client"
  <2> DEFINE S == Stop["client"]
             K == StopCalls("client")
  <2>1. S \in Seq(K) /\ Len(S) \in Nat
    BY ClientStops
  <2>2. S # <<>>
    <3> DEFINE A == tcp_client_stop \o tty_stop \o app_led_stop
    <3>1. tcp_client_stop \in Seq(K) /\ tty_stop \in Seq(K) /\ app_led_stop \in Seq(K)
      BY ThreadsOf DEF tcp_client_stop, tty_stop, app_led_stop, Clear, StopCalls
    <3>2. app_stop \in Seq(K) /\ Len(app_stop) = 1
      BY ThreadsOf DEF app_stop, Clear, StopCalls
    <3>3. S = A \o app_stop
      BY DEF Stop, Builds
    <3> HIDE DEF K, S
    <3>4. A \in Seq(K)
      BY <3>1, ConcatProperties
    <3> HIDE DEF A
    <3> QED BY <3>2, <3>3, <3>4, ConcatProperties, LenProperties
  <2>3. \A c \in K : c[1] \notin {"tell", "free"}
    BY DEF StopCalls, Disarm
  <2> HIDE DEF S, K
  <2>4. Len(S) >= 1
    BY <2>1, <2>2, EmptySeq, LenProperties
  <2>5. \A i \in 1 .. Len(S) : S[i] \in K
    BY <2>1, ElementOfSeq
  <2>6. \A i \in 1 .. Len(S) : S[i][1] # "tell" /\ S[i][1] # "free"
    BY <2>3, <2>5
  <2> QED BY <1>1, <2>1, <2>4, <2>5, <2>6 DEF S, K
<1>2. CASE b = "server"
  <2> DEFINE S == Stop["server"]
  <2>1. Len(S) = Rows + 4 /\ Rows \in Nat \ {0}
    BY ServerStops, RowsAssumption
  <2>2. ASSUME NEW i \in 1 .. Rows + 4
        PROVE  \/ i \in {1, 2, Rows + 3, Rows + 4}
               \/ \E k \in Row : i = 3 + k
    <3>1. CASE i \in 3 .. Rows + 2
      <4>1. i - 3 \in Row /\ i = 3 + (i - 3)
        BY <2>1, <3>1 DEF Row
      <4> QED BY <4>1
    <3> QED BY <2>1, <3>1
  <2>3. S[1] = Clear("mng") /\ S[2] = Clear("keep")
        /\ S[Rows + 3] = Disarm /\ S[Rows + 4] = Clear("app")
        /\ \A k \in Row : S[3 + k] = <<"tell", k>>
    BY ServerStops
  <2> HIDE DEF S
  <2>4. ASSUME NEW i \in 1 .. Rows + 4
        PROVE  /\ S[i] \in StopCalls("server")
               /\ S[i][1] = "tell" => /\ S[i][2] \in Row
                                      /\ i + (Rows - S[i][2]) \in 1 .. Rows + 4
                                      /\ i # Rows + 4
               /\ S[i][1] # "free"
    <3>1. CASE i \in {1, 2, Rows + 3, Rows + 4}
      <4>1. S[i] \in {Clear("app"), Clear("mng"), Clear("keep"), Disarm}
        BY <2>3, <3>1
      <4> QED BY <4>1, ThreadsOf DEF Clear, Disarm, StopCalls
    <3>2. ASSUME NEW k \in Row, i = 3 + k
          PROVE  /\ S[i] \in StopCalls("server") /\ S[i][1] = "tell" /\ S[i][2] = k
                 /\ i + (Rows - k) \in 1 .. Rows + 4 /\ i # Rows + 4
      <4>1. S[i] = <<"tell", k>>
        BY <2>3, <3>2
      <4>2. i + (Rows - k) \in 1 .. Rows + 4 /\ i # Rows + 4
        BY <2>1, <3>2 DEF Row
      <4> QED BY <4>1, <4>2 DEF StopCalls
    <3> QED BY <2>2, <3>1, <3>2
  <2> QED BY <1>2, <2>1, <2>4 DEF S
<1> QED BY <1>1, <1>2 DEF Builds

-----------------------------------------------------------------------------
(* The invariant.                                                          *)

\* The other program's threads do not exist.
OnlyOwnThreads == \A t \in AllThreads \ Threads[build] : thread[t] = "none"

\* Only the app thread carries out a command 0, and it is not past its end.
OnlyAppStops ==
  \A t \in AllThreads : thread[t] = "stopping" =>
    t = "app" /\ stop \in 1 .. Len(Stop[build])

\* The flags main has set are set until a command 0 or main's own stop.
FlagsSet ==
  stop = 0 /\ main <= LS(build) + LJ(build) =>
    \A j \in 1 .. LS(build) :
      j < main /\ Start[build][j][1] = "set" => flag[Start[build][j][2]]

\* mng has ended when main has joined it.
MngJoined == build = "server" /\ main > 9 => thread["mng"] = "ended"

\* Only the end of the server's main frees rows, ...
FreedLate == freedRow # {} => build = "server" /\ main > Rows + 16

\* ... one after the other, ...
FreedInOrder ==
  build = "server" => \A k \in Row : main = Rows + 16 + k =>
                        \A j \in 0 .. k - 1 : j \in freedRow

\* ... and what its tcp_server_stop did not tell is behind a row that is offline.
Told ==
  build = "server" => \A i \in Row : main > 14 + i =>
    ~row[i].commit \/ \E j \in 0 .. i : ~row[j].online /\ j \notin freedRow

RowsInv == MngJoined /\ FreedLate /\ FreedInOrder /\ Told /\ FreedIsTold

IndInv == TypeOK /\ OnlyOwnThreads /\ OnlyAppStops /\ FlagsSet /\ RowsInv

\* Both lists of calls have an end that is a number.
LEMMA Ends ==
  ASSUME NEW b \in Builds
  PROVE  /\ LS(b) \in Nat /\ LJ(b) \in Nat /\ LS(b) >= 1
         /\ Len(Calls[b]) \in Nat /\ Len(Calls[b]) >= LS(b) + LJ(b)
<1>1. LS(b) \in Nat /\ LJ(b) \in Nat /\ LE(b) \in Nat
      /\ Len(Calls[b]) = LS(b) + LJ(b) + LE(b)
  BY CallAt
<1>2. LS(b) >= 1
  BY StartTyped DEF LS, Builds
<1> QED BY <1>1, <1>2

\* The proof of the invariant: the initial states, and one lemma per action.
LEMMA InitInv == Init => IndInv
<1> SUFFICES ASSUME Init PROVE IndInv
  OBVIOUS
<1>1. PICK unset \in BOOLEAN :
        flag = [t \in AllThreads |-> unset /\ t \in Threads[build]]
  BY DEF Init
<1>2. flag \in [AllThreads -> BOOLEAN]
  <2>1. \A t \in AllThreads : (unset /\ t \in Threads[build]) \in BOOLEAN
    OBVIOUS
  <2> QED BY <1>1, <2>1, Zenon
<1>3. thread \in [AllThreads -> ThreadStates] /\ worker \in [Row -> WorkerStates]
  BY DEF Init, ThreadStates, WorkerStates
<1>4. queue \in Seq(Messages) /\ Len(queue) <= QueueCap
  <2>1. CASE queue = <<>>
    BY <2>1, CapAssumption
  <2>2. ASSUME NEW m \in Messages, queue = <<m>>
        PROVE  queue \in Seq(Messages) /\ Len(queue) <= QueueCap
    BY <2>2, CapAssumption
  <2>3. Sendable(build) \subseteq Messages
    BY DEF Sendable, Messages
  <2> QED
    BY <2>1, <2>2, <2>3 DEF Init
<1>5. row \in [Row -> [online : BOOLEAN, commit : BOOLEAN]]
  BY DEF Init
<1>6. main \in 1 .. Len(Calls[build]) + 1 /\ main <= LS(build)
  BY Ends DEF Init
<1>7. stop \in 0 .. Len(Stop[build]) + 1
  BY StopAt DEF Init
<1>8. TypeOK
  BY <1>2, <1>3, <1>4, <1>5, <1>6, <1>7 DEF Init, TypeOK
<1>9. OnlyOwnThreads /\ OnlyAppStops
  BY DEF Init, OnlyOwnThreads, OnlyAppStops
<1>10. FlagsSet
  <2>1. \A j \in 1 .. LS(build) : ~(j < main)
    BY Ends DEF Init
  <2> QED BY <2>1 DEF FlagsSet
<1>11. RowsInv
  BY RowsAssumption
  DEF Init, RowsInv, MngJoined, FreedLate, FreedInOrder, Told, FreedIsTold, Row
<1> QED
  BY <1>8, <1>9, <1>10, <1>11 DEF IndInv

-----------------------------------------------------------------------------
(* main.                                                                   *)

LEMMA RowTyped ==
  ASSUME NEW r \in [Row -> [online : BOOLEAN, commit : BOOLEAN]], NEW i
  PROVE  /\ [r EXCEPT ![i].commit = FALSE] \in [Row -> [online : BOOLEAN, commit : BOOLEAN]]
         /\ [r EXCEPT ![i].online = FALSE] \in [Row -> [online : BOOLEAN, commit : BOOLEAN]]
OBVIOUS

\* What a call of main changes.
LEMMA MainCallEffect ==
  ASSUME TypeOK, NEW call \in AnyCall(build), MainCall(call)
  PROVE  /\ flag' \in [AllThreads -> BOOLEAN]
         /\ thread' \in [AllThreads -> ThreadStates]
         /\ timer' \in {"none", "armed", "deleted"}
         /\ queue' \in Seq(Messages) /\ Len(queue') <= QueueCap
         /\ row' \in [Row -> [online : BOOLEAN, commit : BOOLEAN]]
         /\ freed' \subseteq Parts /\ freedRow' \subseteq Row /\ crashed' \in BOOLEAN
<1>0. build \in Builds /\ Threads[build] \subseteq AllThreads
  BY ThreadsOf DEF TypeOK
<1>1. CASE StopCall(call) /\ UNCHANGED <<thread, queue, freed, freedRow>>
  <2>1. flag' \in [AllThreads -> BOOLEAN]
    BY <1>1 DEF TypeOK, StopCall, SetFlag
  <2>2. timer' \in {"none", "armed", "deleted"} /\ crashed' \in BOOLEAN
    BY <1>1, Zenon DEF TypeOK, StopCall, DisarmTimer
  <2>3. row' \in [Row -> [online : BOOLEAN, commit : BOOLEAN]]
    <3> DEFINE i == call[2]
    <3>1. row' = row \/ row' = [row EXCEPT ![i].commit = FALSE]
      BY <1>1, Zenon DEF StopCall, TellRow
    <3> HIDE DEF i
    <3>2. row \in [Row -> [online : BOOLEAN, commit : BOOLEAN]]
      BY DEF TypeOK
    <3>3. [row EXCEPT ![i].commit = FALSE] \in [Row -> [online : BOOLEAN, commit : BOOLEAN]]
      BY <3>2, RowTyped
    <3> QED BY <3>1, <3>2, <3>3
  <2> QED BY <1>1, <2>1, <2>2, <2>3 DEF TypeOK
<1>2. CASE /\ call[1] = "set" /\ SetFlag(call[2], TRUE)
           /\ UNCHANGED <<thread, timer, queue, row, memory>>
  BY <1>2 DEF TypeOK, SetFlag, memory
<1>3. CASE /\ call[1] = "create"
           /\ thread' = [thread EXCEPT ![call[2]] =
                           IF call[2] = "connect" THEN "reading" ELSE "running"]
           /\ UNCHANGED <<flag, timer, queue, row, memory>>
  BY <1>3 DEF TypeOK, ThreadStates, memory
<1>4. CASE call = Arm /\ timer' = "armed"
           /\ UNCHANGED <<flag, thread, queue, row, memory>>
  BY <1>4 DEF TypeOK, memory
<1>5. CASE UNCHANGED <<flag, thread, timer, queue, row, memory>>
  BY <1>5 DEF TypeOK, memory
<1>6. CASE /\ call[1] = "deinit" /\ freed' = freed \cup {call[2]}
           /\ queue' = IF call[2] = "msg" THEN <<>> ELSE queue
           /\ UNCHANGED <<flag, thread, timer, row, freedRow, crashed>>
  <2>1. call[2] \in Parts
    BY <1>6 DEF AnyCall, StartCalls, JoinCalls, EndCalls, StopCalls, Arm, Disarm, Exit
  <2>2. queue' \in Seq(Messages) /\ Len(queue') <= QueueCap
    BY <1>6, CapAssumption DEF TypeOK
  <2> QED BY <1>6, <2>1, <2>2 DEF TypeOK
<1>7. CASE /\ call[1] = "free" /\ FreeRow(call[2])
           /\ UNCHANGED <<flag, thread, timer, queue, freed, crashed>>
  <2>1. call[2] \in Row
    BY <1>7 DEF AnyCall, StartCalls, JoinCalls, EndCalls, StopCalls, Arm, Disarm, Exit
  <2>2. row' \in [Row -> [online : BOOLEAN, commit : BOOLEAN]]
    <3> DEFINE i == call[2]
    <3>1. row' = row \/ row' = [row EXCEPT ![i].online = FALSE]
      BY <1>7, Zenon DEF FreeRow
    <3> HIDE DEF i
    <3>2. row \in [Row -> [online : BOOLEAN, commit : BOOLEAN]]
      BY DEF TypeOK
    <3>3. [row EXCEPT ![i].online = FALSE] \in [Row -> [online : BOOLEAN, commit : BOOLEAN]]
      BY <3>2, RowTyped
    <3> QED BY <3>1, <3>2, <3>3
  <2>3. freedRow' \subseteq Row
    BY <1>7, <2>1 DEF TypeOK, FreeRow
  <2> QED BY <1>7, <2>2, <2>3 DEF TypeOK
<1> QED
  BY <1>1, <1>2, <1>3, <1>4, <1>5, <1>6, <1>7, Zenon DEF MainCall

\* What the kinds of calls leave alone.
LEMMA MainCallFrame ==
  ASSUME TypeOK, NEW call \in AnyCall(build), MainCall(call)
  PROVE  /\ call \notin StartCalls(build) => thread' = thread
         /\ \A t \in AllThreads : \/ thread'[t] = thread[t]
                                   \/ /\ t \in Threads[build]
                                      /\ thread'[t] \in {"running", "reading"}
         /\ call[1] = "set" => flag' = [flag EXCEPT ![call[2]] = TRUE]
         /\ call[1] \in {"create", "arm", "join"} => flag' = flag
         /\ call[1] # "free" => freedRow' = freedRow
         /\ call[1] = "tell" => TellRow(call[2])
         /\ call[1] = "free" => FreeRow(call[2])
         /\ call[1] \notin {"tell", "free"} => row' = row
         /\ call \in JoinCalls(build) => thread[call[2]] = "ended" \/ Detached(call[2])
<1>0. build \in Builds /\ Threads[build] \subseteq AllThreads
  BY ThreadsOf DEF TypeOK
<1> USE DEF Arm, Disarm, Exit
<1>1. CASE StopCall(call) /\ UNCHANGED <<thread, queue, freed, freedRow>>
  <2>1. call[1] \in {"clear", "tell", "disarm"}
    <3>1. call[1] = "clear" \/ call[1] = "tell" \/ call = Disarm
      BY <1>1, Zenon DEF StopCall
    <3> QED BY <3>1
  <2>2. call[1] = "tell" => TellRow(call[2])
    BY <1>1 DEF StopCall
  <2>3. call[1] # "tell" => row' = row
    BY <1>1 DEF StopCall
  <2> QED BY <1>1, <2>1, <2>2, <2>3 DEF JoinCalls
<1>2. CASE /\ call[1] = "set" /\ SetFlag(call[2], TRUE)
           /\ UNCHANGED <<thread, timer, queue, row, memory>>
  BY <1>2 DEF SetFlag, memory, JoinCalls
<1>3. CASE /\ call[1] = "create"
           /\ thread' = [thread EXCEPT ![call[2]] =
                           IF call[2] = "connect" THEN "reading" ELSE "running"]
           /\ UNCHANGED <<flag, timer, queue, row, memory>>
  <2>1. call \in StartCalls(build) /\ call \notin JoinCalls(build)
    BY <1>3 DEF AnyCall, JoinCalls, EndCalls, StopCalls
  <2>2. call[2] \in Threads[build]
    BY <1>3, <2>1 DEF StartCalls
  <2> QED BY <1>0, <1>3, <2>1, <2>2 DEF TypeOK, memory
<1>4. CASE call = Arm /\ timer' = "armed"
           /\ UNCHANGED <<flag, thread, queue, row, memory>>
  BY <1>4 DEF memory, JoinCalls
<1>5. CASE /\ call[1] = "join"
           /\ thread[call[2]] = "ended" \/ Detached(call[2])
           /\ UNCHANGED <<flag, thread, timer, queue, row, memory>>
  BY <1>5 DEF memory
<1>6. CASE /\ call[1] = "deinit" /\ freed' = freed \cup {call[2]}
           /\ queue' = IF call[2] = "msg" THEN <<>> ELSE queue
           /\ UNCHANGED <<flag, thread, timer, row, freedRow, crashed>>
  BY <1>6 DEF JoinCalls
<1>7. CASE /\ call[1] = "free" /\ FreeRow(call[2])
           /\ UNCHANGED <<flag, thread, timer, queue, freed, crashed>>
  BY <1>7 DEF JoinCalls
<1>8. CASE call = Exit /\ UNCHANGED <<flag, thread, timer, queue, row, memory>>
  BY <1>8 DEF memory, JoinCalls
<1> QED
  BY <1>1, <1>2, <1>3, <1>4, <1>5, <1>6, <1>7, <1>8, Zenon DEF MainCall

\* The place of main after a call.
LEMMA MainPlace ==
  ASSUME TypeOK, Main
  PROVE  LET call == Calls[build][main] IN
         /\ main \in 1 .. Len(Calls[build]) /\ call \in AnyCall(build)
         /\ call \in StartCalls(build) => main <= LS(build)
         /\ call \in JoinCalls(build) => main > LS(build) /\ main <= LS(build) + LJ(build)
         /\ main' \in 1 .. Len(Calls[build]) + 1 /\ main' > main
         /\ main <= LS(build) + LJ(build) => main' = main + 1
         /\ main <= LS(build) => call = Start[build][main] /\ call \in StartCalls(build)
         /\ main > LS(build) /\ main <= LS(build) + LJ(build) =>
              call = Joins[build][main - LS(build)] /\ call \in JoinCalls(build)
         /\ call[1] \in {"tell", "free"} => build = "server"
<1> DEFINE call == Calls[build][main]
           N == Len(Calls[build])
<1>1. build \in Builds /\ main \in 1 .. N + 1 /\ main # N + 1
  BY DEF TypeOK, Main, Alive, Done
<1>2. LS(build) \in Nat /\ LJ(build) \in Nat /\ N \in Nat /\ Rows \in Nat \ {0}
  BY <1>1, Ends, RowsAssumption
<1>3. main' = After(call, main)
  BY DEF Main
<1>4. main \in 1 .. N
  BY <1>1, <1>2
<1>5. main <= LS(build) => call = Start[build][main] /\ call \in StartCalls(build)
  <2> HIDE DEF call
  <2>1. \A i \in 1 .. LS(build) :
          Calls[build][i] = Start[build][i] /\ Calls[build][i] \in StartCalls(build)
    BY <1>1, CallAt
  <2> QED BY <1>2, <1>4, <2>1 DEF call
<1>6. main > LS(build) /\ main <= LS(build) + LJ(build) =>
        call = Joins[build][main - LS(build)] /\ call \in JoinCalls(build)
  <2> SUFFICES ASSUME main > LS(build), main <= LS(build) + LJ(build)
               PROVE  call = Joins[build][main - LS(build)] /\ call \in JoinCalls(build)
    OBVIOUS
  <2>1. main - LS(build) \in 1 .. LJ(build) /\ LS(build) + (main - LS(build)) = main
    BY <1>2, <1>4
  <2>2. \A i \in 1 .. LJ(build) :
          /\ Calls[build][LS(build) + i] = Joins[build][i]
          /\ Calls[build][LS(build) + i] \in JoinCalls(build)
    BY <1>1, CallAt
  <2> QED BY <2>1, <2>2
<1>7. CASE build = "client"
  <2>1. LS(build) = 17 /\ LJ(build) = 8
    BY <1>7, ClientCalls
  <2>2. /\ call \in AnyCall(build)
        /\ call \in StartCalls(build) => main <= 17
        /\ call \in JoinCalls(build) => main > 17 /\ main <= 25
        /\ call[1] # "tell" /\ call[1] # "free"
    BY <1>4, <1>7, ClientCalls
  <2> HIDE DEF call, N
  <2>3. main' = main + 1
    BY <1>3, <2>2 DEF After
  <2> QED BY <1>2, <1>4, <1>5, <1>6, <1>7, <2>1, <2>2, <2>3 DEF call, N
<1>8. CASE build = "server"
  <2>1. LS(build) = 7 /\ LJ(build) = 3 /\ N = 2 * Rows + 17
    BY <1>8, ServerCalls
  <2>2. /\ call \in AnyCall(build)
        /\ call \in StartCalls(build) => main <= 7
        /\ call \in JoinCalls(build) => main \in 8 .. 10
        /\ call[1] = "tell" => call[2] \in Row /\ main = 14 + call[2]
        /\ call[1] = "free" => call[2] \in Row /\ main = Rows + 16 + call[2]
    BY <1>4, <1>8, <2>1, ServerCalls
  <2> HIDE DEF call, N
  <2>3. main' = main + 1 \/ /\ main' = main + (Rows - call[2])
                            /\ call[1] = "tell" \/ call[1] = "free"
    BY <1>3 DEF After
  <2>4. main' \in 1 .. N + 1 /\ main' > main /\ (main <= 10 => main' = main + 1)
    <3>1. CASE main' = main + 1
      BY <1>2, <1>4, <2>1, <3>1
    <3>2. CASE main' = main + (Rows - call[2]) /\ call[1] = "tell"
      <4>1. PICK k \in Row : k = call[2]
        BY <2>2, <3>2
      <4>2. k \in 0 .. Rows - 1 /\ main = 14 + k /\ main' = main + (Rows - k)
        BY <2>2, <3>2, <4>1 DEF Row
      <4> QED BY <1>2, <2>1, <4>2
    <3>3. CASE main' = main + (Rows - call[2]) /\ call[1] = "free"
      <4>1. PICK k \in Row : k = call[2]
        BY <2>2, <3>3
      <4>2. k \in 0 .. Rows - 1 /\ main = Rows + 16 + k /\ main' = main + (Rows - k)
        BY <2>2, <3>3, <4>1 DEF Row
      <4> QED BY <1>2, <2>1, <4>2
    <3> QED BY <2>3, <3>1, <3>2, <3>3
  <2> QED BY <1>2, <1>4, <1>5, <1>6, <1>8, <2>1, <2>2, <2>4 DEF call, N
<1> QED
  BY <1>1, <1>7, <1>8 DEF Builds

LEMMA MainFlags == IndInv /\ Main => FlagsSet'
<1> SUFFICES ASSUME IndInv, Main, stop = 0, main' <= LS(build) + LJ(build),
                    NEW j \in 1 .. LS(build), j < main', Start[build][j][1] = "set"
             PROVE  flag'[Start[build][j][2]]
  BY DEF FlagsSet, Main, LS, LJ
<1> DEFINE call == Calls[build][main]
           t == Start[build][j][2]
<1>1. TypeOK /\ build \in Builds
  BY DEF IndInv, TypeOK
<1>2. LS(build) \in Nat /\ LJ(build) \in Nat
  BY <1>1, Ends
<1>3. /\ main \in 1 .. Len(Calls[build]) /\ call \in AnyCall(build) /\ main' > main
      /\ main' \in 1 .. Len(Calls[build]) + 1 /\ Len(Calls[build]) \in Nat
      /\ main <= LS(build) + LJ(build) => main' = main + 1
      /\ main <= LS(build) => call = Start[build][main] /\ call \in StartCalls(build)
      /\ main > LS(build) /\ main <= LS(build) + LJ(build) => call \in JoinCalls(build)
  BY <1>1, MainPlace, Ends
<1>4. MainCall(call)
  BY DEF Main
<1> HIDE DEF call
<1>5. /\ call[1] = "set" => flag' = [flag EXCEPT ![call[2]] = TRUE]
      /\ call[1] \in {"create", "arm", "join"} => flag' = flag
  BY <1>1, <1>3, <1>4, MainCallFrame
<1>6. main <= LS(build) + LJ(build) /\ main' = main + 1
  BY <1>2, <1>3
<1>7. flag \in [AllThreads -> BOOLEAN] /\ t \in AllThreads
  <2>1. Start[build][j] \in StartCalls(build)
    BY <1>1, StartTyped, ElementOfSeq DEF LS
  <2>2. Start[build][j][2] \in Threads[build]
    BY <2>1 DEF StartCalls, Arm
  <2> QED BY <1>1, <2>2, ThreadsOf DEF TypeOK
<1>8. j < main => flag[t]
  BY <1>6 DEF IndInv, FlagsSet
<1> HIDE DEF t
<1>9. CASE main <= LS(build)
  <2>1. call[1] \in {"create", "set", "arm"}
    BY <1>3, <1>9 DEF StartCalls, Arm
  <2>2. CASE j < main
    <3>1. flag' = flag \/ flag' = [flag EXCEPT ![call[2]] = TRUE]
      BY <1>5, <2>1
    <3>2. flag[t]
      BY <1>8, <2>2, Zenon
    <3>3. flag'[t]
      BY <1>7, <3>1, <3>2, Zenon
    <3> QED BY <3>3 DEF t
  <2>3. CASE j = main
    <3>1. call[1] = "set" /\ call[2] = t
      BY <1>3, <1>9, <2>3 DEF t
    <3>2. flag' = [flag EXCEPT ![t] = TRUE]
      BY <1>5, <3>1
    <3>3. flag'[t]
      BY <1>7, <3>2, Zenon
    <3> QED BY <3>3 DEF t
  <2> QED BY <1>3, <1>6, <2>2, <2>3
<1>10. CASE main > LS(build)
  <2>1. call[1] = "join"
    BY <1>3, <1>6, <1>10 DEF JoinCalls
  <2>2. j < main
    BY <1>2, <1>3, <1>10
  <2>3. flag' = flag
    BY <1>5, <2>1
  <2>4. flag'[t]
    BY <1>8, <2>2, <2>3, Zenon
  <2> QED BY <2>4 DEF t
<1> QED
  BY <1>2, <1>3, <1>9, <1>10 DEF t

\* What the two loops do to a row.
LEMMA RowEffect ==
  ASSUME row \in [Row -> [online : BOOLEAN, commit : BOOLEAN]], NEW k \in Row
  PROVE  /\ TellRow(k) => /\ \A i \in Row : row'[i].online = row[i].online
                          /\ \A i \in Row : row'[i].commit => row[i].commit
                          /\ row[k].online => ~row'[k].commit
                          /\ ~row[k].online => row' = row
         /\ FreeRow(k) => /\ \A i \in Row : row'[i].commit = row[i].commit
                          /\ \A i \in Row : i # k => row'[i].online = row[i].online
                          /\ row[k].online => freedRow' = freedRow \cup {k}
                          /\ ~row[k].online => freedRow' = freedRow /\ row' = row
<1>1. ASSUME TellRow(k), row[k].online
      PROVE  /\ \A i \in Row : row'[i].online = row[i].online
             /\ \A i \in Row : row'[i].commit => row[i].commit
             /\ ~row'[k].commit
  <2>1. row' = [row EXCEPT ![k].commit = FALSE]
    BY <1>1, Zenon DEF TellRow
  <2> QED BY <2>1
<1>2. ASSUME TellRow(k), ~row[k].online PROVE row' = row
  BY <1>2, Zenon DEF TellRow
<1>3. ASSUME FreeRow(k), row[k].online
      PROVE  /\ \A i \in Row : row'[i].commit = row[i].commit
             /\ \A i \in Row : i # k => row'[i].online = row[i].online
             /\ freedRow' = freedRow \cup {k}
  <2>1. row' = [row EXCEPT ![k].online = FALSE] /\ freedRow' = freedRow \cup {k}
    BY <1>3, Zenon DEF FreeRow
  <2> QED BY <2>1
<1>4. ASSUME FreeRow(k), ~row[k].online PROVE freedRow' = freedRow /\ row' = row
  BY <1>4, Zenon DEF FreeRow
<1> QED
  BY <1>1, <1>2, <1>3, <1>4

LEMMA ServerMainRows == IndInv /\ Main /\ build = "server" => RowsInv'
<1> SUFFICES ASSUME IndInv, Main, build = "server" PROVE RowsInv'
  OBVIOUS
<1> DEFINE call == Calls["server"][main]
<1>1. /\ TypeOK /\ build' = "server" /\ Rows \in Nat \ {0}
      /\ row \in [Row -> [online : BOOLEAN, commit : BOOLEAN]]
      /\ MngJoined /\ FreedLate /\ FreedInOrder /\ Told /\ FreedIsTold
  BY RowsAssumption DEF IndInv, RowsInv, TypeOK, Main
<1>2. /\ main \in 1 .. 2 * Rows + 17 /\ call \in AnyCall("server")
      /\ main' \in 1 .. 2 * Rows + 18 /\ main' > main
      /\ main <= 10 => main' = main + 1
      /\ main > 7 => call \notin StartCalls("server")
      /\ main = 9 => call = Join("mng") /\ call \in JoinCalls("server")
  <2>1. LS("server") = 7 /\ LJ("server") = 3 /\ Len(Calls["server"]) = 2 * Rows + 17
    BY ServerCalls
  <2>2. /\ main \in 1 .. Len(Calls["server"]) /\ call \in AnyCall("server")
        /\ main' \in 1 .. Len(Calls["server"]) + 1 /\ main' > main
        /\ main <= 10 => main' = main + 1
        /\ call \in StartCalls("server") => main <= 7
        /\ main > 7 /\ main <= 10 =>
             call = Joins["server"][main - 7] /\ call \in JoinCalls("server")
    BY <1>1, <2>1, MainPlace
  <2> HIDE DEF call
  <2>3. main = 9 => call = Join("mng") /\ call \in JoinCalls("server")
    <3> SUFFICES ASSUME main = 9 PROVE call = Join("mng") /\ call \in JoinCalls("server")
      OBVIOUS
    <3>1. main > 7 /\ main <= 10 /\ main - 7 = 2
      OBVIOUS
    <3> QED BY <2>2, <3>1, JoinsTyped
  <2>4. main \in 1 .. 2 * Rows + 17 /\ main' \in 1 .. 2 * Rows + 18
    BY <1>1, <2>1, <2>2
  <2>5. main > 7 => call \notin StartCalls("server")
    BY <2>2, <2>4
  <2> QED BY <2>2, <2>3, <2>4, <2>5
<1>3. /\ call[1] = "tell" => call[2] \in Row /\ main = 14 + call[2]
      /\ call[1] = "free" => call[2] \in Row /\ main = Rows + 16 + call[2]
  BY <1>2, ServerCalls
<1>4. /\ \A k \in Row : main = 14 + k => call = <<"tell", k>>
      /\ \A k \in Row : main = Rows + 16 + k => call = <<"free", k>>
  BY ServerCalls
<1>5. MainCall(call) /\ main' = After(call, main)
  BY DEF Main
<1> HIDE DEF call
<1>6. /\ call \notin StartCalls("server") => thread' = thread
      /\ call[1] # "free" => freedRow' = freedRow
      /\ call[1] = "tell" => TellRow(call[2])
      /\ call[1] = "free" => FreeRow(call[2])
      /\ call[1] \notin {"tell", "free"} => row' = row
      /\ call \in JoinCalls("server") => thread[call[2]] = "ended" \/ Detached(call[2])
  BY <1>1, <1>2, <1>5, MainCallFrame
\* A loop over the rows, or another call.
<1>7. ASSUME NEW k \in Row, call[1] = "tell", call[2] = k
      PROVE  /\ main = 14 + k /\ TellRow(k) /\ freedRow' = freedRow
             /\ main' = IF row[k].online THEN main + 1 ELSE 14 + Rows
  <2>1. main = 14 + k /\ TellRow(k) /\ freedRow' = freedRow
    BY <1>3, <1>6, <1>7
  <2>2. main' = IF row[k].online THEN main + 1 ELSE main + (Rows - k)
    BY <1>5, <1>7 DEF After
  <2>3. main + (Rows - k) = 14 + Rows
    BY <1>1, <1>2, <2>1 DEF Row
  <2> QED BY <2>1, <2>2, <2>3
<1>8. ASSUME NEW k \in Row, call[1] = "free", call[2] = k
      PROVE  /\ main = Rows + 16 + k /\ FreeRow(k)
             /\ main' = IF row[k].online THEN main + 1 ELSE 2 * Rows + 16
  <2>1. main = Rows + 16 + k /\ FreeRow(k)
    BY <1>3, <1>6, <1>8
  <2>2. main' = IF row[k].online THEN main + 1 ELSE main + (Rows - k)
    BY <1>5, <1>8 DEF After
  <2>3. main + (Rows - k) = 2 * Rows + 16
    BY <1>1, <1>2, <2>1 DEF Row
  <2> QED BY <2>1, <2>2, <2>3
<1>9. ASSUME call[1] \notin {"tell", "free"}
      PROVE  /\ main' = main + 1 /\ row' = row /\ freedRow' = freedRow
             /\ \A k \in Row : main # 14 + k /\ main # Rows + 16 + k
  BY <1>4, <1>5, <1>6, <1>9 DEF After
<1>10. MngJoined'
  <2>1. CASE main > 9
    BY <1>1, <1>2, <1>6, <2>1 DEF MngJoined
  <2>2. CASE main = 9
    <3>1. call[2] = "mng" /\ call \in JoinCalls("server") /\ call \notin StartCalls("server")
      BY <1>2, <2>2 DEF Join
    <3>2. thread["mng"] = "ended" \/ Detached("mng")
      BY <1>6, <3>1
    <3> QED BY <1>6, <3>1, <3>2 DEF MngJoined, Detached
  <2>3. CASE main < 9
    <3>1. ~(main' > 9)
      BY <1>2, <2>3
    <3> QED BY <3>1 DEF MngJoined
  <2> QED BY <1>2, <2>1, <2>2, <2>3
<1>11. FreedLate'
  <2>1. CASE call[1] = "free"
    <3>1. main >= Rows + 16
      BY <1>1, <1>2, <1>3, <2>1 DEF Row
    <3>2. main' > Rows + 16
      BY <1>1, <1>2, <3>1
    <3> QED BY <1>1, <3>2 DEF FreedLate
  <2>2. CASE call[1] # "free"
    <3>1. main > Rows + 16 => main' > Rows + 16
      BY <1>1, <1>2
    <3> QED BY <1>1, <1>6, <2>2, <3>1 DEF FreedLate
  <2> QED BY <2>1, <2>2
<1>12. FreedInOrder'
  <2> SUFFICES ASSUME NEW k \in Row, main' = Rows + 16 + k, NEW j \in 0 .. k - 1
               PROVE  j \in freedRow'
    BY DEF FreedInOrder
  <2>0. k \in 1 .. Rows - 1 /\ k - 1 \in Row
    BY <1>1 DEF Row
  <2>1. CASE call[1] = "free"
    <3>1. PICK h \in Row : h = call[2]
      BY <1>3, <2>1
    <3>2. main = Rows + 16 + h /\ FreeRow(h)
          /\ main' = IF row[h].online THEN main + 1 ELSE 2 * Rows + 16
      BY <1>8, <2>1, <3>1
    <3>3. Rows + 16 + k # 2 * Rows + 16
      BY <1>1, <2>0
    <3>4. row[h].online /\ Rows + 16 + k = Rows + 16 + h + 1
      BY <3>2, <3>3
    <3>5. h = k - 1
      BY <1>1, <2>0, <3>4 DEF Row
    <3>6. freedRow' = freedRow \cup {h}
      BY <1>1, <3>2, <3>4, RowEffect
    <3>7. CASE j = h
      BY <3>6, <3>7
    <3>8. CASE j # h
      <4>1. j \in 0 .. h - 1
        BY <2>0, <3>5, <3>8
      <4>2. j \in freedRow
        BY <1>1, <3>2, <4>1 DEF FreedInOrder
      <4> QED BY <3>6, <4>2
    <3> QED BY <3>7, <3>8
  <2>2. CASE call[1] = "tell"
    <3>1. PICK h \in Row : h = call[2]
      BY <1>3, <2>2
    <3>2. main = 14 + h /\ main' = IF row[h].online THEN main + 1 ELSE 14 + Rows
      BY <1>7, <2>2, <3>1
    <3>3. main' <= 14 + Rows
      BY <1>1, <3>2 DEF Row
    <3> QED BY <1>1, <2>0, <3>3
  <2>3. CASE call[1] \notin {"tell", "free"}
    <3>1. main' = main + 1 /\ main # Rows + 16 + (k - 1)
      BY <1>9, <2>0, <2>3
    <3> QED BY <1>1, <1>2, <2>0, <3>1
  <2> QED BY <2>1, <2>2, <2>3
<1>13. Told'
  <2> SUFFICES ASSUME NEW i \in Row, main' > 14 + i
               PROVE  \/ ~row'[i].commit
                      \/ \E j \in 0 .. i : ~row'[j].online /\ j \notin freedRow'
    BY DEF Told
  <2>0. i \in 0 .. Rows - 1 /\ \A j \in 0 .. i : j \in Row
    BY <1>1 DEF Row
  <2>1. CASE main > 14 + i
    <3>1. ~row[i].commit \/ \E j \in 0 .. i : ~row[j].online /\ j \notin freedRow
      BY <1>1, <2>1 DEF Told
    <3>2. CASE call[1] = "free"
      <4>1. PICK h \in Row : h = call[2]
        BY <1>3, <3>2
      <4>2. FreeRow(h)
        BY <1>8, <3>2, <4>1
      <4>3. \A n \in Row : row'[n].commit = row[n].commit
        BY <1>1, <4>2, RowEffect
      <4>4. ASSUME NEW j \in 0 .. i, ~row[j].online, j \notin freedRow
            PROVE  ~row'[j].online /\ j \notin freedRow'
        <5>1. CASE row[h].online
          <6>1. j # h /\ freedRow' = freedRow \cup {h} /\ row'[j].online = row[j].online
            BY <1>1, <2>0, <4>2, <4>4, <5>1, RowEffect
          <6> QED BY <4>4, <6>1
        <5>2. CASE ~row[h].online
          BY <1>1, <4>2, <4>4, <5>2, RowEffect
        <5> QED BY <5>1, <5>2
      <4> QED BY <3>1, <4>3, <4>4
    <3>3. CASE call[1] = "tell"
      <4>1. PICK h \in Row : h = call[2]
        BY <1>3, <3>3
      <4>2. TellRow(h) /\ freedRow' = freedRow
        BY <1>7, <3>3, <4>1
      <4>3. /\ \A n \in Row : row'[n].online = row[n].online
            /\ \A n \in Row : row'[n].commit => row[n].commit
        BY <1>1, <4>2, RowEffect
      <4> QED BY <2>0, <3>1, <4>2, <4>3
    <3>4. CASE call[1] \notin {"tell", "free"}
      BY <1>9, <3>1, <3>4
    <3> QED BY <3>2, <3>3, <3>4
  <2>2. CASE main <= 14 + i
    <3>1. main < Rows + 16
      BY <1>1, <1>2, <2>0, <2>2
    <3>2. freedRow = {} /\ call[1] # "free"
      <4>1. ~(main > Rows + 16)
        BY <1>1, <1>2, <3>1
      <4>2. freedRow = {}
        BY <1>1, <4>1 DEF FreedLate
      <4>3. call[1] = "free" => main >= Rows + 16
        BY <1>1, <1>3 DEF Row
      <4> QED BY <1>1, <1>2, <3>1, <4>2, <4>3
    <3>3. CASE call[1] = "tell"
      <4>1. PICK h \in Row : h = call[2]
        BY <1>3, <3>3
      <4>2. /\ main = 14 + h /\ TellRow(h) /\ freedRow' = freedRow
            /\ main' = IF row[h].online THEN main + 1 ELSE 14 + Rows
        BY <1>7, <3>3, <4>1
      <4>3. h \in 0 .. i
        BY <1>1, <2>0, <2>2, <4>2 DEF Row
      <4>4. CASE row[h].online
        <5>1. 14 + h + 1 > 14 + i
          BY <4>2, <4>4
        <5>2. h = i
          BY <1>1, <2>0, <4>3, <5>1
        <5> QED BY <1>1, <4>2, <4>4, <5>2, RowEffect
      <4>5. CASE ~row[h].online
        <5>1. row' = row
          BY <1>1, <4>2, <4>5, RowEffect
        <5> QED BY <3>2, <4>2, <4>3, <4>5, <5>1
      <4> QED BY <4>4, <4>5
    <3>4. CASE call[1] # "tell"
      <4>1. main' = main + 1 /\ main # 14 + i
        BY <1>9, <3>2, <3>4
      <4> QED BY <1>2, <2>0, <2>2, <4>1
    <3> QED BY <3>3, <3>4
  <2> QED BY <1>2, <2>0, <2>1, <2>2
<1>14. FreedIsTold'
  <2> SUFFICES ASSUME NEW i \in freedRow' PROVE ~row'[i].commit
    BY DEF FreedIsTold
  <2>0. freedRow \subseteq Row
    BY <1>1 DEF TypeOK
  <2>1. CASE call[1] = "free"
    <3>1. PICK h \in Row : h = call[2]
      BY <1>3, <2>1
    <3>2. main = Rows + 16 + h /\ FreeRow(h)
      BY <1>8, <2>1, <3>1
    <3>3. /\ \A n \in Row : row'[n].commit = row[n].commit
          /\ row[h].online => freedRow' = freedRow \cup {h}
          /\ ~row[h].online => freedRow' = freedRow
      BY <1>1, <3>2, RowEffect
    <3>4. CASE i \in freedRow
      BY <1>1, <2>0, <3>3, <3>4 DEF FreedIsTold
    <3>5. CASE i \notin freedRow
      <4>1. i = h /\ row[h].online
        BY <3>3, <3>5
      <4>2. main > 14 + h
        BY <1>1, <3>2 DEF Row
      <4>3. ~row[h].commit \/ \E j \in 0 .. h : ~row[j].online /\ j \notin freedRow
        BY <1>1, <4>2 DEF Told
      <4>4. ASSUME NEW j \in 0 .. h, ~row[j].online, j \notin freedRow PROVE FALSE
        <5>1. j # h
          BY <4>1, <4>4
        <5>2. j \in 0 .. h - 1
          BY <5>1 DEF Row
        <5>3. j \in freedRow
          BY <1>1, <3>2, <5>2 DEF FreedInOrder
        <5> QED BY <4>4, <5>3
      <4> QED BY <3>3, <4>1, <4>3, <4>4
    <3> QED BY <3>4, <3>5
  <2>2. CASE call[1] = "tell"
    <3>1. PICK h \in Row : h = call[2]
      BY <1>3, <2>2
    <3>2. TellRow(h) /\ freedRow' = freedRow
      BY <1>7, <2>2, <3>1
    <3>3. \A n \in Row : row'[n].commit => row[n].commit
      BY <1>1, <3>2, RowEffect
    <3> QED BY <1>1, <2>0, <3>2, <3>3 DEF FreedIsTold
  <2>3. CASE call[1] \notin {"tell", "free"}
    BY <1>1, <1>9, <2>3 DEF FreedIsTold
  <2> QED BY <2>1, <2>2, <2>3
<1> QED
  BY <1>10, <1>11, <1>12, <1>13, <1>14 DEF RowsInv

LEMMA MainInv == IndInv /\ Main => IndInv'
<1> SUFFICES ASSUME IndInv, Main PROVE IndInv'
  OBVIOUS
<1> DEFINE call == Calls[build][main]
<1>1. TypeOK /\ build \in Builds /\ build' = build /\ stop' = stop /\ worker' = worker
  BY DEF IndInv, TypeOK, Main
<1>2. /\ call \in AnyCall(build) /\ main' \in 1 .. Len(Calls[build]) + 1
      /\ call[1] \in {"tell", "free"} => build = "server"
  BY <1>1, MainPlace
<1>3. MainCall(call)
  BY DEF Main
<1> HIDE DEF call
<1>4. TypeOK'
  <2>1. /\ flag' \in [AllThreads -> BOOLEAN]
        /\ thread' \in [AllThreads -> ThreadStates]
        /\ timer' \in {"none", "armed", "deleted"}
        /\ queue' \in Seq(Messages) /\ Len(queue') <= QueueCap
        /\ row' \in [Row -> [online : BOOLEAN, commit : BOOLEAN]]
        /\ freed' \subseteq Parts /\ freedRow' \subseteq Row /\ crashed' \in BOOLEAN
    BY <1>1, <1>2, <1>3, MainCallEffect
  <2> QED BY <1>1, <1>2, <2>1 DEF TypeOK
<1>5. /\ call[1] # "free" => freedRow' = freedRow
      /\ \A t \in AllThreads : \/ thread'[t] = thread[t]
                                \/ /\ t \in Threads[build]
                                   /\ thread'[t] \in {"running", "reading"}
  BY <1>1, <1>2, <1>3, MainCallFrame
<1>6. OnlyOwnThreads'
  BY <1>1, <1>5 DEF IndInv, OnlyOwnThreads
<1>7. OnlyAppStops'
  BY <1>1, <1>5 DEF IndInv, OnlyAppStops
<1>8. FlagsSet'
  BY MainFlags
<1>9. RowsInv'
  <2>1. CASE build = "client"
    <3>1. freedRow = {}
      BY <2>1 DEF IndInv, RowsInv, FreedLate
    <3>2. freedRow' = {}
      BY <1>2, <1>5, <2>1, <3>1
    <3> QED BY <1>1, <2>1, <3>2
        DEF RowsInv, MngJoined, FreedLate, FreedInOrder, Told, FreedIsTold
  <2>2. CASE build = "server"
    BY <2>2, ServerMainRows
  <2> QED BY <1>1, <2>1, <2>2 DEF Builds
<1> QED
  BY <1>4, <1>6, <1>7, <1>8, <1>9 DEF IndInv

-----------------------------------------------------------------------------
(* The threads.                                                            *)

\* As long as main stands still and no client comes, a row is at most told or
\* taken offline, ...
LEMMA RowsStay ==
  ASSUME IndInv, UNCHANGED <<build, main, freedRow>>,
         \A i \in Row : row'[i].online => row[i].online,
         \A i \in Row : row'[i].commit => row[i].commit,
         \/ thread'["mng"] = thread["mng"]
         \/ thread["mng"] # "ended"
  PROVE  RowsInv'
<1>1. RowsInv /\ freedRow \subseteq Row
  BY DEF IndInv, TypeOK
<1>2. MngJoined'
  BY <1>1 DEF RowsInv, MngJoined
<1>3. FreedLate' /\ FreedInOrder'
  BY <1>1 DEF RowsInv, FreedLate, FreedInOrder
<1>4. Told'
  <2> SUFFICES ASSUME build = "server", NEW i \in Row, main > 14 + i
               PROVE  \/ ~row'[i].commit
                      \/ \E j \in 0 .. i : ~row'[j].online /\ j \notin freedRow
    BY DEF Told
  <2>1. ~row[i].commit \/ \E j \in 0 .. i : ~row[j].online /\ j \notin freedRow
    BY <1>1 DEF RowsInv, Told
  <2>2. \A j \in 0 .. i : j \in Row
    BY RowsAssumption DEF Row
  <2> QED BY <2>1, <2>2
<1>5. FreedIsTold'
  BY <1>1 DEF RowsInv, FreedIsTold
<1> QED
  BY <1>2, <1>3, <1>4, <1>5 DEF RowsInv

\* ... and a client comes only before main has joined mng.
LEMMA RowsBefore ==
  ASSUME IndInv, UNCHANGED <<build, main, freedRow>>, thread["mng"] = "reading"
  PROVE  RowsInv'
<1>1. RowsInv /\ OnlyOwnThreads /\ build \in Builds /\ main \in Nat
      /\ Rows \in Nat \ {0}
  <2>1. main \in 1 .. Len(Calls[build]) + 1
    BY DEF IndInv, TypeOK
  <2> QED BY <2>1, RowsAssumption DEF IndInv, TypeOK
<1>2. build = "server"
  BY <1>1, ThreadsOf DEF OnlyOwnThreads, Builds, AllThreads
<1>3. ~(main > 9)
  BY <1>1, <1>2 DEF RowsInv, MngJoined
<1>4. freedRow = {}
  BY <1>1, <1>3 DEF RowsInv, FreedLate
<1>5. \A i \in Row : ~(main > 14 + i) /\ main # Rows + 16 + i
  BY <1>1, <1>3 DEF Row
<1> QED
  BY <1>1, <1>2, <1>3, <1>4, <1>5
  DEF RowsInv, MngJoined, FreedLate, FreedInOrder, Told, FreedIsTold

\* A thread that exists and has not ended does a step: the invariant needs
\* to know no more of it than what it becomes.
LEMMA ThreadInv ==
  ASSUME IndInv, NEW t \in AllThreads, NEW state \in ThreadStates,
         thread[t] \notin {"none", "ended"}, Become(t, state),
         state = "stopping" => t = "app" /\ stop' \in 1 .. Len(Stop[build]),
         t = "app" \/ stop' = stop, stop' \in 0 .. Len(Stop[build]) + 1,
         stop' = 0 => flag' = flag /\ stop = 0,
         UNCHANGED <<build, main, worker, freed, freedRow>>,
         flag' \in [AllThreads -> BOOLEAN],
         timer' \in {"none", "armed", "deleted"},
         row' \in [Row -> [online : BOOLEAN, commit : BOOLEAN]],
         \A i \in Row : row'[i].online => row[i].online,
         \A i \in Row : row'[i].commit => row[i].commit,
         queue' \in Seq(Messages), Len(queue') <= QueueCap, crashed' \in BOOLEAN
  PROVE  IndInv'
<1>1. thread' = [thread EXCEPT ![t] = state]
  BY DEF Become
<1>2. thread \in [AllThreads -> ThreadStates] /\ build \in Builds
  BY DEF IndInv, TypeOK
<1>3. TypeOK'
  BY <1>1, <1>2 DEF IndInv, TypeOK
<1>4. OnlyOwnThreads'
  BY <1>1, <1>2 DEF IndInv, OnlyOwnThreads
<1>5. OnlyAppStops'
  BY <1>1, <1>2 DEF IndInv, OnlyAppStops
<1>6. FlagsSet'
  BY DEF IndInv, FlagsSet, LS, LJ
<1>7. RowsInv'
  <2>1. thread'["mng"] = thread["mng"] \/ thread["mng"] # "ended"
    BY <1>1, <1>2, ThreadsOf DEF AllThreads
  <2> QED BY <2>1, RowsStay
<1> QED
  BY <1>3, <1>4, <1>5, <1>6, <1>7 DEF IndInv

LEMMA MsgSendTyped ==
  ASSUME TypeOK, MsgSend PROVE queue' \in Seq(Messages) /\ Len(queue') <= QueueCap
<1>1. queue \in Seq(Messages) /\ Len(queue) <= QueueCap /\ QueueCap \in Nat
  BY CapAssumption DEF TypeOK
<1>2. CASE queue' = queue
  BY <1>1, <1>2
<1>3. ASSUME NEW m \in Messages, Len(queue) < QueueCap, queue' = Append(queue, m)
      PROVE  queue' \in Seq(Messages) /\ Len(queue') <= QueueCap
  BY <1>1, <1>3, AppendProperties
<1>4. Sendable(build) \subseteq Messages
  BY DEF Sendable, Messages
<1> QED
  BY <1>2, <1>3, <1>4 DEF MsgSend

LEMMA AppReceiveInv == IndInv /\ AppReceive => IndInv'
<1> SUFFICES ASSUME IndInv, AppReceive PROVE IndInv'
  OBVIOUS
<1>1. build \in Builds /\ thread["app"] = "reading" /\ "app" \in AllThreads
  BY ThreadsOf DEF IndInv, TypeOK, AppReceive, Builds
<1>2. Len(Stop[build]) \in Nat /\ Len(Stop[build]) >= 1
  BY <1>1, StopAt
<1>3. queue' \in Seq(Messages) /\ Len(queue') <= QueueCap
  <2>1. queue \in Seq(Messages) /\ Len(queue) <= QueueCap /\ queue # <<>>
    BY DEF IndInv, TypeOK, AppReceive
  <2> QED BY <2>1, HeadTailProperties, CapAssumption DEF AppReceive
<1>4. /\ UNCHANGED <<build, main, worker, freed, freedRow, flag, row, timer, crashed>>
      /\ flag' \in [AllThreads -> BOOLEAN]
      /\ timer' \in {"none", "armed", "deleted"} /\ crashed' \in BOOLEAN
      /\ row' \in [Row -> [online : BOOLEAN, commit : BOOLEAN]]
  BY DEF AppReceive, IndInv, TypeOK, table, memory
<1>5. CASE Head(queue) = "quit"
  <2>1. Become("app", "stopping") /\ stop' = 1
    BY <1>5 DEF AppReceive
  <2> QED BY <1>1, <1>2, <1>3, <1>4, <2>1, ThreadInv DEF ThreadStates
<1>6. CASE Head(queue) # "quit"
  <2>1. Become("app", "running") /\ stop' = stop
    BY <1>6 DEF AppReceive
  <2>2. stop' \in 0 .. Len(Stop[build]) + 1
    BY <2>1 DEF IndInv, TypeOK
  <2> QED BY <1>1, <1>3, <1>4, <2>1, <2>2, ThreadInv DEF ThreadStates
<1> QED
  BY <1>5, <1>6

LEMMA AppStopInv == IndInv /\ AppStop => IndInv'
<1> SUFFICES ASSUME IndInv, AppStop PROVE IndInv'
  OBVIOUS
<1> DEFINE call == Stop[build][stop]
<1>1. build \in Builds /\ thread["app"] = "stopping" /\ "app" \in AllThreads /\ TypeOK
  BY ThreadsOf DEF IndInv, TypeOK, AppStop, Builds
<1>2. stop \in 1 .. Len(Stop[build]) /\ Len(Stop[build]) \in Nat
  BY <1>1, StopAt DEF IndInv, OnlyAppStops
<1>3. /\ StopCall(call) /\ stop' = After(call, stop)
      /\ UNCHANGED <<build, main, queue, worker, freed, freedRow>>
  BY DEF AppStop
<1>4. /\ call \in StopCalls(build) /\ call[1] # "free"
      /\ call[1] = "tell" => /\ call[2] \in Row /\ stop # Len(Stop[build])
                             /\ stop + (Rows - call[2]) \in 1 .. Len(Stop[build])
  BY <1>1, <1>2, StopAt
<1> HIDE DEF call
<1>5. flag' \in [AllThreads -> BOOLEAN]
  BY <1>3 DEF StopCall, SetFlag, IndInv, TypeOK
<1>6. timer' \in {"none", "armed", "deleted"} /\ crashed' \in BOOLEAN
  BY <1>3, Zenon DEF StopCall, DisarmTimer, IndInv, TypeOK
<1>7. /\ row' \in [Row -> [online : BOOLEAN, commit : BOOLEAN]]
      /\ \A i \in Row : row'[i].online => row[i].online
      /\ \A i \in Row : row'[i].commit => row[i].commit
  <2>0. row \in [Row -> [online : BOOLEAN, commit : BOOLEAN]]
    BY <1>1 DEF TypeOK
  <2>1. row' = row \/ (call[1] = "tell" /\ TellRow(call[2]))
    BY <1>3, Zenon DEF StopCall
  <2>2. CASE row' = row
    BY <2>0, <2>2
  <2>3. CASE call[1] = "tell" /\ TellRow(call[2])
    <3>1. PICK k \in Row : k = call[2]
      BY <1>4, <2>3
    <3>2. TellRow(k)
      BY <2>3, <3>1
    <3>3. [row EXCEPT ![k].commit = FALSE] \in [Row -> [online : BOOLEAN, commit : BOOLEAN]]
      BY <2>0, RowTyped
    <3>4. row' = row \/ row' = [row EXCEPT ![k].commit = FALSE]
      BY <3>2, Zenon DEF TellRow
    <3>5. /\ \A i \in Row : row'[i].online = row[i].online
          /\ \A i \in Row : row'[i].commit => row[i].commit
      BY <2>0, <3>2, RowEffect
    <3> QED BY <2>0, <3>3, <3>4, <3>5
  <2> QED BY <2>1, <2>2, <2>3
<1>8. queue' \in Seq(Messages) /\ Len(queue') <= QueueCap
  BY <1>1, <1>3 DEF TypeOK
<1>9. stop' \in 1 .. Len(Stop[build]) + 1 /\ (stop # Len(Stop[build]) => stop' \in 1 .. Len(Stop[build]))
  <2>1. stop' = stop + 1 \/ (call[1] = "tell" /\ stop' = stop + (Rows - call[2]))
    BY <1>3, <1>4 DEF After
  <2> QED BY <1>2, <1>4, <2>1
<1>10. stop' \in 0 .. Len(Stop[build]) + 1 /\ stop' # 0
  BY <1>2, <1>9
<1>11. CASE stop = Len(Stop[build])
  <2>1. Become("app", "running")
    BY <1>11 DEF AppStop
  <2> QED BY <1>1, <1>3, <1>5, <1>6, <1>7, <1>8, <1>10, <2>1, ThreadInv DEF ThreadStates
<1>12. CASE stop # Len(Stop[build])
  <2>1. Become("app", "stopping") /\ stop' \in 1 .. Len(Stop[build])
    BY <1>9, <1>12 DEF AppStop
  <2> QED BY <1>1, <1>3, <1>5, <1>6, <1>7, <1>8, <1>10, <2>1, ThreadInv DEF ThreadStates
<1> QED
  BY <1>11, <1>12

LEMMA ThreadStepInv ==
  ASSUME IndInv, NEW t \in AllThreads, Loop(t) \/ Input(t) \/ Send(t)
  PROVE  IndInv'
<1>1. /\ UNCHANGED <<build, flag, main, stop, timer, row, worker, freed, freedRow, crashed>>
      /\ thread[t] \in {"running", "reading", "sending"}
      /\ \E state \in {"ended", "reading", "sending", "running"} : Become(t, state)
  BY Zenon DEF Loop, Input, Send, process, table, memory
<1>2. PICK state \in {"ended", "reading", "sending", "running"} : Become(t, state)
  BY <1>1
<1>3. queue' \in Seq(Messages) /\ Len(queue') <= QueueCap
  <2>1. queue' = queue \/ MsgSend
    BY DEF Loop, Input, Send
  <2> QED BY <2>1, MsgSendTyped DEF IndInv, TypeOK
<1>4. /\ stop' \in 0 .. Len(Stop[build]) + 1 /\ flag' \in [AllThreads -> BOOLEAN]
      /\ timer' \in {"none", "armed", "deleted"} /\ crashed' \in BOOLEAN
      /\ row' \in [Row -> [online : BOOLEAN, commit : BOOLEAN]]
  BY <1>1 DEF IndInv, TypeOK
<1> QED
  BY <1>1, <1>2, <1>3, <1>4, ThreadInv DEF ThreadStates

LEMMA ServeInv == IndInv /\ Serve => IndInv'
<1> SUFFICES ASSUME IndInv, Serve PROVE IndInv'
  OBVIOUS
<1>1. /\ thread["mng"] = "reading" /\ Become("mng", "running")
      /\ UNCHANGED <<build, main, stop, flag, timer, queue, freed, freedRow, crashed>>
  BY DEF Serve, process, memory
<1>2. thread' = [thread EXCEPT !["mng"] = "running"] /\ "mng" \in AllThreads
      /\ thread \in [AllThreads -> ThreadStates]
  BY <1>1, ThreadsOf DEF Become, AllThreads, IndInv, TypeOK
<1>3. /\ row' \in [Row -> [online : BOOLEAN, commit : BOOLEAN]]
      /\ worker' \in [Row -> WorkerStates]
  <2>1. /\ row \in [Row -> [online : BOOLEAN, commit : BOOLEAN]]
        /\ worker \in [Row -> WorkerStates]
    BY DEF IndInv, TypeOK
  <2>2. CASE UNCHANGED table
    BY <2>1, <2>2 DEF table
  <2>3. ASSUME NEW i \in Row,
               row' = [row EXCEPT ![i] = [online |-> TRUE, commit |-> TRUE]],
               worker' = [worker EXCEPT ![i] = IF @ = "sending" THEN @ ELSE "running"]
        PROVE  /\ row' \in [Row -> [online : BOOLEAN, commit : BOOLEAN]]
               /\ worker' \in [Row -> WorkerStates]
    BY <2>1, <2>3 DEF WorkerStates
  <2> QED BY <2>2, <2>3 DEF Serve
<1>4. TypeOK'
  BY <1>1, <1>2, <1>3 DEF IndInv, TypeOK, ThreadStates
<1>5. OnlyOwnThreads' /\ OnlyAppStops'
  BY <1>1, <1>2 DEF IndInv, OnlyOwnThreads, OnlyAppStops
<1>6. FlagsSet'
  BY <1>1 DEF IndInv, FlagsSet, LS, LJ
<1>7. RowsInv'
  BY <1>1, RowsBefore
<1> QED
  BY <1>4, <1>5, <1>6, <1>7 DEF IndInv

\* The other steps change no thread, no flag and nothing of main.
LEMMA OtherInv ==
  ASSUME IndInv,
         UNCHANGED <<build, main, stop, flag, thread, timer, freed, freedRow>>,
         queue' \in Seq(Messages), Len(queue') <= QueueCap, crashed' \in BOOLEAN,
         worker' \in [Row -> WorkerStates],
         row' \in [Row -> [online : BOOLEAN, commit : BOOLEAN]],
         \A i \in Row : row'[i].online => row[i].online,
         \A i \in Row : row'[i].commit => row[i].commit
  PROVE  IndInv'
<1>1. TypeOK'
  BY DEF IndInv, TypeOK
<1>2. OnlyOwnThreads' /\ OnlyAppStops' /\ FlagsSet'
  BY DEF IndInv, OnlyOwnThreads, OnlyAppStops, FlagsSet, LS, LJ
<1>3. RowsInv'
  BY RowsStay
<1> QED
  BY <1>1, <1>2, <1>3 DEF IndInv

LEMMA TableInv ==
  ASSUME IndInv,
         \/ DeleteClient \/ OtherSends \/ UseFreed
         \/ \E i \in Row : Work(i) \/ WorkerSend(i)
  PROVE  IndInv'
<1>1. /\ TypeOK /\ queue \in Seq(Messages) /\ Len(queue) <= QueueCap
      /\ row \in [Row -> [online : BOOLEAN, commit : BOOLEAN]]
      /\ worker \in [Row -> WorkerStates] /\ crashed \in BOOLEAN
  BY DEF IndInv, TypeOK
<1>2. CASE DeleteClient
  <2>1. PICK i \in Row : row' = [row EXCEPT ![i] = [online |-> FALSE, commit |-> FALSE]]
    BY <1>2 DEF DeleteClient
  <2>2. /\ row' \in [Row -> [online : BOOLEAN, commit : BOOLEAN]]
        /\ \A j \in Row : row'[j].online => row[j].online
        /\ \A j \in Row : row'[j].commit => row[j].commit
    BY <1>1, <2>1
  <2>3. UNCHANGED <<build, main, stop, flag, thread, timer, queue, worker, freed, freedRow, crashed>>
    BY <1>2 DEF DeleteClient, process, memory
  <2> QED BY <1>1, <2>2, <2>3, OtherInv
<1>3. CASE OtherSends
  <2>1. UNCHANGED <<build, main, stop, flag, thread, timer, row, worker, freed, freedRow, crashed>>
    BY <1>3 DEF OtherSends, process, table, memory
  <2>2. queue' \in Seq(Messages) /\ Len(queue') <= QueueCap
    BY <1>1, <1>3, MsgSendTyped DEF OtherSends
  <2> QED BY <1>1, <2>1, <2>2, OtherInv
<1>4. CASE UseFreed
  <2>1. /\ UNCHANGED <<build, main, stop, flag, thread, timer, queue, row, worker, freed, freedRow>>
        /\ crashed' \in BOOLEAN
    BY <1>4 DEF UseFreed, process, table
  <2> QED BY <1>1, <2>1, OtherInv
<1>5. ASSUME NEW i \in Row, Work(i) PROVE IndInv'
  <2>1. UNCHANGED <<build, main, stop, flag, thread, timer, queue, row, freed, freedRow, crashed>>
    BY <1>5 DEF Work, process, memory
  <2>2. worker' \in [Row -> WorkerStates]
    BY <1>1, <1>5 DEF Work, WorkerStates
  <2> QED BY <1>1, <2>1, <2>2, OtherInv
<1>6. ASSUME NEW i \in Row, WorkerSend(i) PROVE IndInv'
  <2>1. UNCHANGED <<build, main, stop, flag, thread, timer, row, freed, freedRow, crashed>>
    BY <1>6 DEF WorkerSend, process, memory
  <2>2. worker' \in [Row -> WorkerStates]
    BY <1>1, <1>6 DEF WorkerSend, WorkerStates
  <2>3. queue' \in Seq(Messages) /\ Len(queue') <= QueueCap
    BY <1>1, <1>6, MsgSendTyped DEF WorkerSend
  <2> QED BY <1>1, <2>1, <2>2, <2>3, OtherInv
<1> QED
  BY <1>2, <1>3, <1>4, <1>5, <1>6

LEMMA StutterInv == IndInv /\ UNCHANGED vars => IndInv'
<1> SUFFICES ASSUME IndInv, UNCHANGED vars PROVE IndInv'
  OBVIOUS
<1>1. UNCHANGED <<build, main, stop, flag, thread, timer, queue, row, worker,
                  freed, freedRow, crashed>>
  BY DEF vars, process, table, memory
<1>2. /\ queue \in Seq(Messages) /\ Len(queue) <= QueueCap /\ crashed \in BOOLEAN
      /\ row \in [Row -> [online : BOOLEAN, commit : BOOLEAN]]
      /\ worker \in [Row -> WorkerStates]
  BY DEF IndInv, TypeOK
<1> QED
  BY <1>1, <1>2, OtherInv

-----------------------------------------------------------------------------
(* The theorems.                                                           *)

\* The inductive invariant holds throughout, in both programs.
THEOREM Invariant == Spec => []IndInv
<1>1. IndInv /\ [Next]_vars => IndInv'
  BY MainInv, AppReceiveInv, AppStopInv, ThreadStepInv, ServeInv, TableInv, StutterInv
  DEF Next
<1> QED
  BY InitInv, <1>1, PTL DEF Spec

\* The variables have their types, for a queue and a table of any size: neither
\* main nor the app thread runs past the end of its list of calls.
THEOREM TypeCorrect == Spec => []TypeOK
BY Invariant, PTL DEF IndInv

\* The fifos tcp_server_deinit frees are those of commit threads that have been
\* told to end, for a table of any size, whatever clients come and go.
THEOREM FreedWasTold == Spec => []FreedIsTold
BY Invariant, PTL DEF IndInv, RowsInv

\* Once everything is started no thread that main created ends, in both
\* programs and in whatever order threads and main ran before.
THEOREM NoThreadEnds == Spec => ThreadsStay
<1>1. ASSUME IndInv, [Next]_vars, Settled, NEW t \in AllThreads, thread'[t] = "ended"
      PROVE  thread[t] = "ended"
  <2> SUFFICES ASSUME thread[t] # "ended" PROVE FALSE
    OBVIOUS
  <2>1. /\ build \in Builds /\ TypeOK /\ thread \in [AllThreads -> ThreadStates]
        /\ main \in 1 .. Len(Calls[build]) + 1
    BY <1>1 DEF IndInv, TypeOK
  <2>2. /\ LS(build) \in Nat /\ LJ(build) \in Nat /\ stop = 0
        /\ main > LS(build) /\ main <= LS(build) + LJ(build)
    <3>1. LS(build) \in Nat /\ LJ(build) \in Nat
      BY <2>1, Ends
    <3>2. stop = 0 /\ main \in LS(build) + 1 .. LS(build) + LJ(build)
      BY <1>1 DEF Settled, LS, LJ
    <3> QED BY <3>1, <3>2
  <2>3. ASSUME NEW u \in Threads[build] PROVE flag[u]
    <3>1. PICK j \in 1 .. LS(build) : Start[build][j] = Set(u)
      BY <2>1, StartTyped DEF LS
    <3>2. Start[build][j][1] = "set" /\ Start[build][j][2] = u
      BY <3>1 DEF Set
    <3>4. j < main
      <4>1. PICK k \in Nat : k = LS(build)
        BY <2>2
      <4>2. main > k /\ main \in Int /\ j \in 1 .. k
        BY <2>1, <2>2, <4>1
      <4> QED BY <4>2
    <3>3. flag[Start[build][j][2]]
      BY <1>1, <2>2, <3>2, <3>4 DEF IndInv, FlagsSet
    <3> QED BY <3>2, <3>3
  <2>4. ASSUME Main PROVE FALSE
    <3> DEFINE call == Calls[build][main]
    <3>1. call \in AnyCall(build) /\ MainCall(call)
      BY <2>1, <2>4, MainPlace DEF Main
    <3> HIDE DEF call
    <3>2. thread'[t] = thread[t] \/ thread'[t] \in {"running", "reading"}
      BY <2>1, <3>1, MainCallFrame
    <3> QED BY <1>1, <3>2
  <2>5. ASSUME NEW u \in AllThreads, NEW state, state # "ended", Become(u, state) PROVE FALSE
    BY <1>1, <2>1, <2>5 DEF Become
  <2>6. ASSUME NEW u \in AllThreads, Loop(u) PROVE FALSE
    <3>1. thread[u] = "running" /\ u \in Threads[build]
      BY <1>1, <2>6 DEF Loop, IndInv, OnlyOwnThreads
    <3>2. Loops(u)
      <4>1. CASE u = "commit"
        <5>1. build = "client" /\ "connect" \in Threads[build]
          BY <2>1, <3>1, <4>1, ThreadsOf DEF Builds
        <5> QED BY <2>3, <4>1, <5>1 DEF Loops
      <4>2. CASE u # "commit"
        BY <2>3, <3>1, <4>2 DEF Loops
      <4> QED BY <4>1, <4>2
    <3>3. Become(u, "reading") \/ Become(u, "sending")
      BY <2>6, <3>2 DEF Loop
    <3> QED BY <2>5, <3>3
  <2>7. ASSUME AppReceive \/ AppStop PROVE FALSE
    <3>1. "app" \in AllThreads
      BY ThreadsOf DEF Builds
    <3>2. Become("app", "running") \/ Become("app", "stopping")
      BY <2>7 DEF AppReceive, AppStop
    <3> QED BY <2>5, <3>1, <3>2
  <2>8. ASSUME Serve PROVE FALSE
    <3>1. "mng" \in AllThreads
      BY ThreadsOf DEF Builds
    <3> QED BY <2>5, <2>8, <3>1 DEF Serve
  <2>9. ASSUME NEW u \in AllThreads, Input(u) \/ Send(u) PROVE FALSE
    BY <2>5, <2>9 DEF Input, Send
  <2>10. ASSUME thread' = thread PROVE FALSE
    BY <1>1, <2>10
  <2>11. DeleteClient \/ OtherSends \/ UseFreed
         \/ (\E i \in Row : Work(i) \/ WorkerSend(i)) \/ UNCHANGED vars => thread' = thread
    BY DEF DeleteClient, OtherSends, UseFreed, Work, WorkerSend, vars
  <2> QED
    BY <1>1, <2>4, <2>6, <2>7, <2>8, <2>9, <2>10, <2>11 DEF Next
<1>2. IndInv /\ [Next]_vars =>
        [Settled => \A t \in AllThreads : thread'[t] = "ended" => thread[t] = "ended"]_vars
  BY <1>1
<1> QED
  BY Invariant, <1>2, PTL DEF Spec, ThreadsStay

=============================================================================
