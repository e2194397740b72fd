--------------------------- MODULE ATSocketProofs ---------------------------
(* Theorems about ATSocket, for any number of threads and sockets whose    *)
(* threads run above the parser.                                           *)
EXTENDS ATSocket, TLAPS

Report == [kind : {"recv", "closed"}, of : Sockets, what : Seq(Nat \X Nat)]
Reply  == [kind : {"answer"}, of : Tasks, what : {"ok", "error"}]

Places == {"idle", "open", "connect", "udpsend", "udprecv", "recv", "get",
           "delay", "close", "shutdown"} \cup Waits \cup Checks

\* The types the other parts rest on.
SocketTypes ==
  /\ magic \in [Sockets -> BOOLEAN]
  /\ state \in [Sockets -> {"NONE", "CONNECT", "CLOSED"}]
  /\ recv_notice \in [Sockets -> 0 .. SemMod - 1]
  /\ recvpkt_list = [s \in Sockets |-> recvpkt_list[s]]
  /\ pc \in [Tasks -> Places]
  /\ sock \in [Tasks -> Sockets \cup {NULL}]
  /\ answer \in [Tasks -> {"none", "ok", "error"}]
  /\ link \in [Sockets -> Nat]
  /\ sent \in [Sockets -> Nat]
  /\ nconn \in Nat
  /\ uart \in Seq(Report \cup Reply)
  /\ ppc \in {"idle", "recv", "closed", "notice"}
  /\ ppc # "idle" => urc \in Report

\* A thread in a call has a socket that is in use, and no other thread has it.
Owned ==
  /\ \A t \in Tasks : pc[t] # "idle" => sock[t] \in Sockets /\ magic[sock[t]]
  /\ \A t, u \in Tasks : pc[t] # "idle" /\ pc[u] # "idle" /\ sock[t] = sock[u] => t = u

\* The parser does not enter a callback while a thread has an answer to take.
AnswerFirst == \A t \in Tasks : answer[t] # "none" => ppc = "idle"

SocketInv == SocketTypes /\ Owned /\ AnswerFirst /\ WaiterHasNotice

-----------------------------------------------------------------------------
\* The invariant holds before the first call.
LEMMA SocketInit == Init => SocketInv
<1> SUFFICES ASSUME Init PROVE SocketInv
  OBVIOUS
<1> USE DEF Init
<1>1. SocketTypes
  <2>1. 0 \in 0 .. SemMod - 1
    BY SemAssumption
  <2>2. recvpkt_list = [s \in Sockets |-> recvpkt_list[s]]
    OBVIOUS
  <2>3. uart \in Seq(Report \cup Reply)
    OBVIOUS
  <2> QED  BY <2>1, <2>2, <2>3 DEF SocketTypes, Places
<1>2. Owned
  BY DEF Owned
<1>3. AnswerFirst
  BY DEF AnswerFirst
<1>4. WaiterHasNotice
  BY DEF WaiterHasNotice, Waits
<1> QED  BY <1>1, <1>2, <1>3, <1>4 DEF SocketInv

\* Steps of a thread that leave the socket table, and the parser, alone and move
\* the thread to a place where it does not wait.
LEMMA MoveKeeps ==
  ASSUME SocketInv, NEW t \in Tasks, pc[t] # "idle",
         NEW next \in Places \ ({"idle"} \cup Waits), Goto(t, next),
         UNCHANGED <<magic, recv_notice, recvpkt_list, sock, link, sent, nconn,
                     uart, ppc, urc>>,
         \/ UNCHANGED state
         \/ \E w \in {"NONE", "CONNECT", "CLOSED"} : state' = [state EXCEPT ![sock[t]] = w],
         answer' \in {answer, [answer EXCEPT ![t] = "none"]}
  PROVE  SocketInv'
<1> USE DEF SocketInv, Goto
<1>1. pc' = [pc EXCEPT ![t] = next] /\ pc \in [Tasks -> Places]
  BY DEF SocketTypes
<1>2. SocketTypes'
  <2>1. state' \in [Sockets -> {"NONE", "CONNECT", "CLOSED"}]
    BY DEF SocketTypes
  <2>2. answer' \in [Tasks -> {"none", "ok", "error"}]
    BY DEF SocketTypes
  <2>3. pc' \in [Tasks -> Places]
    BY <1>1
  <2> QED  BY <2>1, <2>2, <2>3 DEF SocketTypes
<1>3. Owned'
  BY <1>1 DEF Owned
<1>4. AnswerFirst'
  <2>1. \A u \in Tasks : answer'[u] # "none" => answer[u] # "none"
    BY DEF SocketTypes
  <2> QED  BY <2>1 DEF AnswerFirst
<1>5. WaiterHasNotice'
  <2> SUFFICES ASSUME NEW u \in Tasks, pc'[u] \in Waits,
                      recvpkt_list[sock[u]] # << >> \/ state'[sock[u]] # "CONNECT"
               PROVE  recv_notice[sock[u]] > 0 \/ (ppc = "notice" /\ urc.of = sock[u])
    BY DEF WaiterHasNotice
  <2>1. u # t /\ pc[u] \in Waits
    BY <1>1
  <2>2. sock[u] # sock[t]
    BY <2>1 DEF Owned, Waits
  <2>3. sock[u] \in Sockets
    BY <2>1 DEF Owned, Waits
  <2>4. state'[sock[u]] = state[sock[u]]
    BY <2>2, <2>3 DEF SocketTypes
  <2> QED  BY <2>1, <2>4 DEF WaiterHasNotice
<1> QED  BY <1>2, <1>3, <1>4, <1>5

\* A thread reads its list; it waits only for a connected socket with an empty one.
LEMMA GetKeeps ==
  ASSUME SocketInv, NEW t \in Tasks, pc[t] # "idle", NEW len,
         \/ at_recvpkt_get(t, len)
         \/ state[sock[t]] = "CONNECT" /\ \E empty \in {"open"} \cup Waits : Get(t, len, empty),
         UNCHANGED <<magic, state, recv_notice, sock, answer, link, sent, nconn,
                     uart, ppc, urc>>
  PROVE  SocketInv'
<1> USE DEF SocketInv
<1>1. PICK next \in {"open", "get"} \cup Waits :
        /\ pc' = [pc EXCEPT ![t] = next]
        /\ next \in Waits => /\ recvpkt_list' = recvpkt_list /\ recvpkt_list[sock[t]] = << >>
                            /\ state[sock[t]] = "CONNECT"
        /\ \/ recvpkt_list' = recvpkt_list
           \/ \E r : recvpkt_list' = [recvpkt_list EXCEPT ![sock[t]] = r]
  <2>1. CASE at_recvpkt_get(t, len)
    <3>1. PICK next \in {"open", "get"} : pc' = [pc EXCEPT ![t] = next]
      BY <2>1 DEF at_recvpkt_get, Goto
    <3>2. \E r : recvpkt_list' = [recvpkt_list EXCEPT ![sock[t]] = r]
      BY <2>1 DEF at_recvpkt_get
    <3> QED  BY <3>1, <3>2 DEF Waits
  <2>2. CASE ~at_recvpkt_get(t, len)
    BY <2>2 DEF Get, Goto
  <2> QED  BY <2>1, <2>2
<1>2. pc' \in [Tasks -> Places]
  BY <1>1 DEF SocketTypes, Places
<1>3. recvpkt_list' = [s \in Sockets |-> recvpkt_list'[s]]
  <2>1. recvpkt_list = [s \in Sockets |-> recvpkt_list[s]]
    BY DEF SocketTypes
  <2> QED  BY <1>1, <2>1
<1>4. SocketTypes'
  BY <1>2, <1>3 DEF SocketTypes
<1>5. pc'[t] # "idle" /\ \A u \in Tasks : u # t => pc'[u] = pc[u]
  BY <1>1 DEF SocketTypes, Waits
<1>6. Owned'
  BY <1>5 DEF Owned
<1>7. AnswerFirst'
  BY DEF AnswerFirst
<1>8. WaiterHasNotice'
  <2> SUFFICES ASSUME NEW u \in Tasks, pc'[u] \in Waits,
                      recvpkt_list'[sock[u]] # << >> \/ state[sock[u]] # "CONNECT"
               PROVE  recv_notice[sock[u]] > 0 \/ (ppc = "notice" /\ urc.of = sock[u])
    BY DEF WaiterHasNotice
  <2>1. u # t
    <3> SUFFICES ASSUME u = t PROVE FALSE
      OBVIOUS
    <3>1. pc'[t] = next
      BY <1>1 DEF SocketTypes
    <3> QED  BY <1>1, <3>1
  <2>2. pc[u] \in Waits /\ pc[u] # "idle"
    BY <1>5, <2>1 DEF Waits
  <2>3. sock[u] # sock[t] /\ sock[u] \in Sockets
    BY <2>1, <2>2 DEF Owned
  <2>4. recvpkt_list = [s \in Sockets |-> recvpkt_list[s]]
    BY DEF SocketTypes
  <2>5. recvpkt_list'[sock[u]] = recvpkt_list[sock[u]]
    BY <1>1, <2>3, <2>4
  <2> QED  BY <2>2, <2>5 DEF WaiterHasNotice
<1> QED  BY <1>4, <1>6, <1>7, <1>8

\* free_socket, in the middle of a callback too
LEMMA FreeKeeps ==
  ASSUME SocketInv, NEW t \in Tasks, pc[t] # "idle", free_socket(t)
  PROVE  SocketInv'
<1> USE DEF SocketInv
<1>1. sock[t] \in Sockets
  BY DEF Owned
<1>2. /\ magic' = [magic EXCEPT ![sock[t]] = FALSE]
      /\ state' = [state EXCEPT ![sock[t]] = "NONE"]
      /\ recv_notice' = [recv_notice EXCEPT ![sock[t]] = 0]
      /\ recvpkt_list' = [recvpkt_list EXCEPT ![sock[t]] = << >>]
      /\ sock' = [sock EXCEPT ![t] = NULL]
      /\ answer' = [answer EXCEPT ![t] = "none"]
      /\ pc' = [pc EXCEPT ![t] = "idle"]
      /\ UNCHANGED <<ppc, urc, uart, link, sent, nconn>>
  BY DEF free_socket, Goto, parser, modem
<1>3. \A s \in Sockets : s # sock[t] =>
        /\ magic'[s] = magic[s] /\ state'[s] = state[s]
        /\ recv_notice'[s] = recv_notice[s] /\ recvpkt_list'[s] = recvpkt_list[s]
  <2>1. recvpkt_list = [s \in Sockets |-> recvpkt_list[s]]
    BY DEF SocketTypes
  <2> QED  BY <1>2, <2>1 DEF SocketTypes
<1>4. /\ pc'[t] = "idle"
      /\ \A u \in Tasks : u # t => pc'[u] = pc[u] /\ sock'[u] = sock[u] /\ answer'[u] = answer[u]
      /\ answer'[t] = "none"
  BY <1>2 DEF SocketTypes
<1>5. SocketTypes'
  <2>1. 0 \in 0 .. SemMod - 1
    BY SemAssumption
  <2>2. /\ magic' \in [Sockets -> BOOLEAN]
        /\ state' \in [Sockets -> {"NONE", "CONNECT", "CLOSED"}]
        /\ recv_notice' \in [Sockets -> 0 .. SemMod - 1]
    BY <1>2, <2>1 DEF SocketTypes
  <2>3. recvpkt_list' = [s \in Sockets |-> recvpkt_list'[s]]
    <3>1. recvpkt_list = [s \in Sockets |-> recvpkt_list[s]]
      BY DEF SocketTypes
    <3> QED  BY <1>2, <3>1
  <2>4. /\ pc' \in [Tasks -> Places]
        /\ sock' \in [Tasks -> Sockets \cup {NULL}]
        /\ answer' \in [Tasks -> {"none", "ok", "error"}]
    BY <1>2 DEF SocketTypes, Places
  <2> QED  BY <1>2, <2>2, <2>3, <2>4 DEF SocketTypes
<1>6. Owned'
  <2>1. ASSUME NEW u \in Tasks, pc'[u] # "idle"
        PROVE  u # t /\ pc[u] # "idle" /\ sock'[u] = sock[u] /\ sock[u] # sock[t]
               /\ sock[u] \in Sockets /\ magic'[sock[u]]
    <3>1. u # t
      BY <1>4, <2>1
    <3>2. pc[u] # "idle" /\ sock'[u] = sock[u]
      BY <1>4, <2>1, <3>1
    <3>3. sock[u] # sock[t] /\ sock[u] \in Sockets /\ magic[sock[u]]
      BY <3>1, <3>2 DEF Owned
    <3> QED  BY <1>3, <3>1, <3>2, <3>3
  <2>2. \A u \in Tasks : pc'[u] # "idle" => sock'[u] \in Sockets /\ magic'[sock'[u]]
    BY <2>1
  <2>3. \A u, v \in Tasks : pc'[u] # "idle" /\ pc'[v] # "idle" /\ sock'[u] = sock'[v] => u = v
    BY <2>1 DEF Owned
  <2> QED  BY <2>2, <2>3 DEF Owned
<1>7. AnswerFirst'
  BY <1>2, <1>4 DEF AnswerFirst
<1>8. WaiterHasNotice'
  <2> SUFFICES ASSUME NEW u \in Tasks, pc'[u] \in Waits,
                      recvpkt_list'[sock'[u]] # << >> \/ state'[sock'[u]] # "CONNECT"
               PROVE  recv_notice'[sock'[u]] > 0 \/ (ppc = "notice" /\ urc.of = sock'[u])
    BY <1>2 DEF WaiterHasNotice
  <2>1. u # t
    BY <1>4 DEF Waits
  <2>2. sock'[u] = sock[u] /\ pc[u] \in Waits /\ pc[u] # "idle"
    BY <1>4, <2>1 DEF Waits
  <2>3. sock[u] # sock[t] /\ sock[u] \in Sockets
    BY <2>1, <2>2 DEF Owned
  <2> QED  BY <1>3, <2>2, <2>3 DEF WaiterHasNotice
<1> QED  BY <1>5, <1>6, <1>7, <1>8

\* at_socket takes a slot that no thread and no connection is using.
LEMMA SocketKeeps ==
  ASSUME SocketInv, NEW t \in Tasks, NEW s \in Sockets, at_socket(t, s)
  PROVE  SocketInv'
<1> USE DEF SocketInv
<1>1. /\ pc[t] = "idle" /\ ~magic[s]
      /\ magic' = [magic EXCEPT ![s] = TRUE]
      /\ state' = [state EXCEPT ![s] = "NONE"]
      /\ recv_notice' = [recv_notice EXCEPT ![s] = 0]
      /\ recvpkt_list' = [recvpkt_list EXCEPT ![s] = << >>]
      /\ sock' = [sock EXCEPT ![t] = s]
      /\ pc' = [pc EXCEPT ![t] = "open"]
      /\ UNCHANGED <<answer, ppc, urc, uart, link, sent, nconn>>
  BY DEF at_socket, Goto, parser, modem
<1>2. \A i \in Sockets : i # s =>
        /\ magic'[i] = magic[i] /\ state'[i] = state[i]
        /\ recv_notice'[i] = recv_notice[i] /\ recvpkt_list'[i] = recvpkt_list[i]
  <2>1. recvpkt_list = [i \in Sockets |-> recvpkt_list[i]]
    BY DEF SocketTypes
  <2> QED  BY <1>1, <2>1 DEF SocketTypes
<1>3. /\ pc'[t] = "open" /\ sock'[t] = s /\ magic'[s]
      /\ \A u \in Tasks : u # t => pc'[u] = pc[u] /\ sock'[u] = sock[u]
  BY <1>1 DEF SocketTypes
<1>4. \A u \in Tasks : pc[u] # "idle" => u # t /\ sock[u] # s /\ sock[u] \in Sockets
  BY <1>1 DEF Owned
<1>5. SocketTypes'
  <2>1. 0 \in 0 .. SemMod - 1
    BY SemAssumption
  <2>2. /\ magic' \in [Sockets -> BOOLEAN]
        /\ state' \in [Sockets -> {"NONE", "CONNECT", "CLOSED"}]
        /\ recv_notice' \in [Sockets -> 0 .. SemMod - 1]
    BY <1>1, <2>1 DEF SocketTypes
  <2>3. recvpkt_list' = [i \in Sockets |-> recvpkt_list'[i]]
    <3>1. recvpkt_list = [i \in Sockets |-> recvpkt_list[i]]
      BY DEF SocketTypes
    <3> QED  BY <1>1, <3>1
  <2>4. /\ pc' \in [Tasks -> Places]
        /\ sock' \in [Tasks -> Sockets \cup {NULL}]
    BY <1>1 DEF SocketTypes, Places
  <2> QED  BY <1>1, <2>2, <2>3, <2>4 DEF SocketTypes
<1>6. Owned'
  <2>1. ASSUME NEW u \in Tasks, pc'[u] # "idle"
        PROVE  sock'[u] \in Sockets /\ magic'[sock'[u]]
    <3>1. CASE u = t
      BY <1>3, <3>1
    <3>2. CASE u # t
      <4>1. pc[u] # "idle" /\ sock'[u] = sock[u] /\ magic[sock[u]]
        BY <1>3, <2>1, <3>2 DEF Owned
      <4> QED  BY <1>2, <1>4, <4>1
    <3> QED  BY <3>1, <3>2
  <2>2. ASSUME NEW u \in Tasks, NEW v \in Tasks, pc'[u] # "idle", pc'[v] # "idle",
               sock'[u] = sock'[v]
        PROVE  u = v
    BY <1>3, <1>4, <2>2 DEF Owned
  <2> QED  BY <2>1, <2>2 DEF Owned
<1>7. AnswerFirst'
  BY <1>1 DEF AnswerFirst
<1>8. WaiterHasNotice'
  <2> SUFFICES ASSUME NEW u \in Tasks, pc'[u] \in Waits,
                      recvpkt_list'[sock'[u]] # << >> \/ state'[sock'[u]] # "CONNECT"
               PROVE  recv_notice'[sock'[u]] > 0 \/ (ppc = "notice" /\ urc.of = sock'[u])
    BY <1>1 DEF WaiterHasNotice
  <2>1. u # t
    BY <1>3 DEF Waits
  <2>2. sock'[u] = sock[u] /\ pc[u] \in Waits /\ pc[u] # "idle"
    BY <1>3, <2>1 DEF Waits
  <2>3. sock[u] # s /\ sock[u] \in Sockets
    BY <1>4, <2>2
  <2> QED  BY <1>2, <2>2, <2>3 DEF WaiterHasNotice
<1> QED  BY <1>5, <1>6, <1>7, <1>8

\* rt_sem_take(recv_notice) takes the notice of its own socket.
LEMMA NoticeKeeps ==
  ASSUME SocketInv, NEW t \in Tasks, RecvNotice(t)
  PROVE  SocketInv'
<1> USE DEF SocketInv
<1>1. /\ pc[t] \in Waits /\ recv_notice[sock[t]] > 0
      /\ recv_notice' = [recv_notice EXCEPT ![sock[t]] = @ - 1]
      /\ pc' = [pc EXCEPT ![t] = Check[pc[t]]]
      /\ UNCHANGED <<magic, state, recvpkt_list, sock, answer, link, sent, nconn,
                     uart, ppc, urc>>
  BY DEF RecvNotice, Goto, parser, modem, misc
<1>2. Check[pc[t]] \in Checks
  BY <1>1 DEF Check, Checks, Waits
<1>3. pc[t] # "idle" /\ sock[t] \in Sockets
  BY <1>1 DEF Owned, Waits
<1>4. /\ pc'[t] \in Checks
      /\ \A u \in Tasks : u # t => pc'[u] = pc[u]
      /\ \A s \in Sockets : s # sock[t] => recv_notice'[s] = recv_notice[s]
  BY <1>1, <1>2 DEF SocketTypes
<1>5. SocketTypes'
  <2>1. recv_notice' \in [Sockets -> 0 .. SemMod - 1]
    <3>1. recv_notice[sock[t]] - 1 \in 0 .. SemMod - 1
      BY <1>1, <1>3, SemAssumption DEF SocketTypes
    <3> QED  BY <1>1, <3>1 DEF SocketTypes
  <2>2. pc' \in [Tasks -> Places]
    BY <1>1, <1>2 DEF SocketTypes, Places
  <2> QED  BY <1>1, <2>1, <2>2 DEF SocketTypes
<1>6. Owned'
  BY <1>1, <1>3, <1>4 DEF Owned, Checks
<1>7. AnswerFirst'
  BY <1>1 DEF AnswerFirst
<1>8. WaiterHasNotice'
  <2> SUFFICES ASSUME NEW u \in Tasks, pc'[u] \in Waits,
                      recvpkt_list[sock[u]] # << >> \/ state[sock[u]] # "CONNECT"
               PROVE  recv_notice'[sock[u]] > 0 \/ (ppc = "notice" /\ urc.of = sock[u])
    BY <1>1 DEF WaiterHasNotice
  <2>1. u # t
    BY <1>4 DEF Waits, Checks
  <2>2. pc[u] \in Waits /\ pc[u] # "idle"
    BY <1>4, <2>1 DEF Waits
  <2>3. sock[u] # sock[t] /\ sock[u] \in Sockets
    BY <1>3, <2>1, <2>2 DEF Owned
  <2> QED  BY <1>4, <2>2, <2>3 DEF WaiterHasNotice
<1> QED  BY <1>5, <1>6, <1>7, <1>8

\* The modem writes: nothing changes before the parser reads it.
LEMMA WriteKeeps ==
  ASSUME SocketInv, NEW e \in Report \cup Reply, Write(e),
         link' \in [Sockets -> Nat], sent' \in [Sockets -> Nat], nconn' \in Nat,
         UNCHANGED <<magic, state, recv_notice, recvpkt_list, pc, sock, answer,
                     ppc, urc>>
  PROVE  SocketInv'
<1> USE DEF SocketInv
<1>1. uart' \in Seq(Report \cup Reply)
  <2>1. uart \in Seq(Report \cup Reply) /\ uart' = Append(uart, e)
    BY DEF SocketTypes, Write
  <2> HIDE DEF SocketInv
  <2> QED  BY <2>1
<1>2. SocketTypes'
  BY <1>1 DEF SocketTypes
<1> QED
  BY <1>2 DEF Owned, AnswerFirst, WaiterHasNotice

\* The modem's answers and reports, and what happens to its connections.
LEMMA ModemKeeps ==
  ASSUME SocketInv,
         \/ \E t \in Tasks : Answer(t)
         \/ \E s \in Sockets : RemoteSend(s) \/ RemoteClose(s)
  PROVE  SocketInv'
<1>1. /\ link \in [Sockets -> Nat] /\ sent \in [Sockets -> Nat] /\ nconn \in Nat
      /\ \A t \in Tasks : pc[t] # "idle" => sock[t] \in Sockets
  BY DEF SocketInv, SocketTypes, Owned
<1>2. ASSUME NEW t \in Tasks, NEW ok \in BOOLEAN, DevConnect(t, ok) PROVE SocketInv'
  <2> DEFINE e == [kind |-> "answer", of |-> t, what |-> IF ok THEN "ok" ELSE "error"]
  <2>1. e \in Report \cup Reply
    BY DEF Reply
  <2>2. /\ Write(e)
        /\ UNCHANGED <<magic, state, recv_notice, recvpkt_list, pc, sock, answer,
                       ppc, urc>>
    BY <1>2 DEF DevConnect, socks, parser, misc
  <2>3. link' \in [Sockets -> Nat] /\ sent' \in [Sockets -> Nat] /\ nconn' \in Nat
    BY <1>1, <1>2 DEF DevConnect
  <2> QED  BY <2>1, <2>2, <2>3, WriteKeeps
<1>3. ASSUME NEW t \in Tasks, DevClose(t) PROVE SocketInv'
  <2> DEFINE e == [kind |-> "answer", of |-> t,
                   what |-> IF link[sock[t]] = 0 THEN "error" ELSE "ok"]
  <2>1. e \in Report \cup Reply
    BY DEF Reply
  <2>2. /\ Write(e)
        /\ UNCHANGED <<magic, state, recv_notice, recvpkt_list, pc, sock, answer,
                       ppc, urc>>
    BY <1>3 DEF DevClose, socks, parser, misc
  <2>3. link' \in [Sockets -> Nat] /\ sent' \in [Sockets -> Nat] /\ nconn' \in Nat
    BY <1>1, <1>3 DEF DevClose
  <2> QED  BY <2>1, <2>2, <2>3, WriteKeeps
<1>4. ASSUME NEW s \in Sockets, RemoteSend(s) PROVE SocketInv'
  <2>1. PICK n \in 1 .. MaxLen :
          /\ sent' = [sent EXCEPT ![s] = @ + n]
          /\ Write([kind |-> "recv", of |-> s,
                    what |-> [i \in 1 .. n |-> <<link[s], sent[s] + i>>]])
    BY <1>4 DEF RemoteSend
  <2> DEFINE data == [i \in 1 .. n |-> <<link[s], sent[s] + i>>]
             e == [kind |-> "recv", of |-> s, what |-> data]
  <2>2. data \in Seq(Nat \X Nat)
    <3>1. n \in Nat /\ link[s] \in Nat /\ sent[s] \in Nat
      BY <1>1, BoundAssumption
    <3>2. \A i \in 1 .. n : <<link[s], sent[s] + i>> \in Nat \X Nat
      BY <3>1
    <3>3. data \in [1 .. n -> Nat \X Nat]
      BY <3>2
    <3> HIDE DEF data
    <3> QED  BY <3>1, <3>3
  <2>3. e \in Report \cup Reply
    <3> HIDE DEF data
    <3> QED  BY <2>2 DEF Report
  <2>4. /\ Write(e)
        /\ UNCHANGED <<magic, state, recv_notice, recvpkt_list, pc, sock, answer,
                       ppc, urc>>
    BY <1>4, <2>1 DEF RemoteSend, socks, parser, misc
  <2>5. link' \in [Sockets -> Nat] /\ sent' \in [Sockets -> Nat] /\ nconn' \in Nat
    BY <1>1, <1>4, <2>1, BoundAssumption DEF RemoteSend
  <2> HIDE DEF e
  <2> QED  BY <2>3, <2>4, <2>5, WriteKeeps
<1>5. ASSUME NEW s \in Sockets, RemoteClose(s) PROVE SocketInv'
  <2> DEFINE e == [kind |-> "closed", of |-> s, what |-> << >>]
  <2>1. e \in Report \cup Reply
    <3>1. << >> \in Seq(Nat \X Nat)
      OBVIOUS
    <3> QED  BY <3>1 DEF Report
  <2>2. /\ Write(e)
        /\ UNCHANGED <<magic, state, recv_notice, recvpkt_list, pc, sock, answer,
                       ppc, urc>>
    BY <1>5 DEF RemoteClose, socks, parser, misc
  <2>3. link' \in [Sockets -> Nat] /\ sent' \in [Sockets -> Nat] /\ nconn' \in Nat
    BY <1>1, <1>5 DEF RemoteClose
  <2> HIDE DEF e
  <2> QED  BY <2>1, <2>2, <2>3, WriteKeeps
<1> QED  BY <1>2, <1>3, <1>4, <1>5 DEF Answer

-----------------------------------------------------------------------------
\* With the threads above it, the parser runs only when no thread has an answer
\* or a notice to take.
LEMMA ThreadsAsleep ==
  ASSUME CallerAbove, ParserRuns, NEW t \in Tasks
  PROVE  answer[t] = "none" /\ ~(pc[t] \in Waits /\ recv_notice[sock[t]] > 0)
BY DEF ParserRuns, Runnable

\* An answer goes to a thread only between callbacks, and a callback begins only
\* with a socket that is in use.
LEMMA NextKeeps ==
  ASSUME SocketInv, CallerAbove, ParserNext
  PROVE  SocketInv'
<1> USE DEF SocketInv
<1>1. PICK e \in Report \cup Reply : e = Head(uart) /\ uart' \in Seq(Report \cup Reply)
  <2>1. uart \in Seq(Report \cup Reply) /\ uart # << >> /\ uart' = Tail(uart)
    BY DEF SocketTypes, ParserNext
  <2> HIDE DEF SocketInv
  <2> QED  BY <2>1
<1>2. /\ ppc = "idle"
      /\ UNCHANGED <<magic, state, recv_notice, recvpkt_list, pc, sock, link, sent,
                     nconn>>
  BY DEF ParserNext, socks, misc
<1>3. WaiterHasNotice' /\ Owned'
  BY <1>2 DEF WaiterHasNotice, Owned
<1>4. CASE e.kind = "answer"
  <2>1. e \in Reply
    BY <1>1, <1>4 DEF Report
  <2>2. answer' = [answer EXCEPT ![e.of] = e.what] /\ UNCHANGED <<ppc, urc>>
    BY <1>1, <1>4 DEF ParserNext, parser
  <2>3. answer' \in [Tasks -> {"none", "ok", "error"}]
    BY <2>1, <2>2 DEF SocketTypes, Reply
  <2>4. SocketTypes'
    BY <1>1, <1>2, <2>2, <2>3 DEF SocketTypes
  <2>5. AnswerFirst'
    BY <1>2, <2>2 DEF AnswerFirst
  <2> QED  BY <1>3, <2>4, <2>5
<1>5. CASE e.kind # "answer"
  <2>1. e \in Report
    BY <1>1, <1>5 DEF Reply
  <2>2. /\ answer' = answer
        /\ \/ UNCHANGED <<ppc, urc>>
           \/ magic[e.of] /\ ppc' = e.kind /\ urc' = e
    BY <1>1, <1>5 DEF ParserNext, Callback, parser
  <2>3. ppc' \in {"idle", "recv", "closed", "notice"} /\ (ppc' # "idle" => urc' \in Report)
    BY <1>2, <2>1, <2>2 DEF SocketTypes, Report
  <2>4. SocketTypes'
    BY <1>1, <1>2, <2>2, <2>3 DEF SocketTypes
  <2>5. AnswerFirst'
    <3>1. \A t \in Tasks : answer[t] = "none"
      BY ThreadsAsleep DEF ParserNext
    <3> QED  BY <2>2, <3>1 DEF AnswerFirst
  <2> QED  BY <1>3, <2>4, <2>5
<1> QED  BY <1>4, <1>5

\* The first half of a callback: data goes into the list, or the state becomes
\* closed, and the notice follows.
LEMMA CallbackKeeps ==
  ASSUME SocketInv, CallerAbove, at_recv_notice_cb \/ at_closed_notice_cb
  PROVE  SocketInv'
<1> USE DEF SocketInv
<1>1. ppc \in {"recv", "closed"} /\ ppc' = "notice" /\ ParserRuns
  BY DEF at_recv_notice_cb, at_closed_notice_cb
<1>2. UNCHANGED <<magic, recv_notice, pc, sock, answer, urc, uart, link, sent, nconn>>
  BY DEF at_recv_notice_cb, at_closed_notice_cb, modem
<1>3. urc \in Report /\ urc.of \in Sockets
  BY <1>1 DEF SocketTypes, Report
<1>4. /\ recvpkt_list' = [s \in Sockets |-> recvpkt_list'[s]]
      /\ \A s \in Sockets : s # urc.of => recvpkt_list'[s] = recvpkt_list[s]
      /\ state' \in [Sockets -> {"NONE", "CONNECT", "CLOSED"}]
      /\ \A s \in Sockets : s # urc.of => state'[s] = state[s]
  <2>1. /\ recvpkt_list = [s \in Sockets |-> recvpkt_list[s]]
        /\ state \in [Sockets -> {"NONE", "CONNECT", "CLOSED"}]
    BY DEF SocketTypes
  <2>2. CASE at_recv_notice_cb
    BY <2>1, <2>2 DEF at_recv_notice_cb
  <2>3. CASE at_closed_notice_cb
    <3>1. recvpkt_list' = recvpkt_list
      BY <2>3 DEF at_closed_notice_cb
    <3>2. state' = [state EXCEPT ![urc.of] = IF magic[urc.of] THEN "CLOSED" ELSE @]
      BY <2>3 DEF at_closed_notice_cb
    <3>3. /\ state' \in [Sockets -> {"NONE", "CONNECT", "CLOSED"}]
          /\ \A s \in Sockets : s # urc.of => state'[s] = state[s]
      BY <1>3, <2>1, <3>2
    <3> QED  BY <2>1, <3>1, <3>3
  <2> QED  BY <2>2, <2>3
<1>5. SocketTypes'
  BY <1>1, <1>2, <1>3, <1>4 DEF SocketTypes
<1>6. Owned'
  BY <1>2 DEF Owned
<1>7. AnswerFirst'
  BY <1>1, <1>2, ThreadsAsleep DEF AnswerFirst
<1>8. WaiterHasNotice'
  <2> SUFFICES ASSUME NEW u \in Tasks, pc[u] \in Waits,
                      recvpkt_list'[sock[u]] # << >> \/ state'[sock[u]] # "CONNECT",
                      urc.of # sock[u]
               PROVE  recv_notice[sock[u]] > 0
    BY <1>1, <1>2 DEF WaiterHasNotice
  <2>1. sock[u] \in Sockets
    BY DEF Owned, Waits
  <2> QED  BY <1>1, <1>4, <2>1 DEF WaiterHasNotice
<1> QED  BY <1>5, <1>6, <1>7, <1>8

\* rt_sem_release(recv_notice): the thread that waits had none, so the counter
\* does not wrap to zero under it.
LEMMA ReleaseKeeps ==
  ASSUME SocketInv, CallerAbove, ReleaseNotice
  PROVE  SocketInv'
<1> USE DEF SocketInv
<1>1. ppc = "notice" /\ ppc' = "idle" /\ ParserRuns
  BY DEF ReleaseNotice
<1>2. UNCHANGED <<magic, state, recvpkt_list, pc, sock, answer, uart, link, sent,
                  nconn>>
  BY DEF ReleaseNotice, modem
<1>3. urc.of \in Sockets
  BY <1>1 DEF SocketTypes, Report
<1>4. recv_notice' = [recv_notice EXCEPT ![urc.of] = IF magic[urc.of]
                                                    THEN (@ + 1) % SemMod ELSE @]
  BY DEF ReleaseNotice
<1>5. recv_notice' \in [Sockets -> 0 .. SemMod - 1]
  <2>1. recv_notice \in [Sockets -> 0 .. SemMod - 1] /\ recv_notice[urc.of] \in 0 .. SemMod - 1
    BY <1>3 DEF SocketTypes
  <2>2. (recv_notice[urc.of] + 1) % SemMod \in 0 .. SemMod - 1
    BY <2>1, SemAssumption
  <2> QED  BY <1>4, <2>1, <2>2
<1>6. SocketTypes'
  BY <1>1, <1>2, <1>5 DEF SocketTypes
<1>7. Owned' /\ AnswerFirst'
  BY <1>1, <1>2 DEF Owned, AnswerFirst
<1>8. WaiterHasNotice'
  <2> SUFFICES ASSUME NEW u \in Tasks, pc[u] \in Waits,
                      recvpkt_list[sock[u]] # << >> \/ state[sock[u]] # "CONNECT"
               PROVE  recv_notice'[sock[u]] > 0
    BY <1>2 DEF WaiterHasNotice
  <2>1. sock[u] \in Sockets /\ magic[sock[u]]
    BY DEF Owned, Waits
  <2>2. recv_notice[sock[u]] \in 0 .. SemMod - 1
    BY <2>1 DEF SocketTypes
  <2>3. recv_notice[sock[u]] = 0
    BY <1>1, <2>2, ThreadsAsleep, SemAssumption
  <2>4. urc.of = sock[u]
    BY <2>3 DEF WaiterHasNotice
  <2>5. recv_notice'[sock[u]] = (0 + 1) % SemMod
    BY <1>4, <2>1, <2>3, <2>4 DEF SocketTypes
  <2>6. (0 + 1) % SemMod = 1
    BY SemAssumption
  <2> QED  BY <2>5, <2>6
<1> QED  BY <1>6, <1>7, <1>8

-----------------------------------------------------------------------------
\* Every step of a thread keeps the invariant.
LEMMA ThreadKeeps ==
  ASSUME SocketInv, NEW t \in Tasks, Call(t) \/ Continue(t)
  PROVE  SocketInv'
<1> USE DEF socks, parser, modem, stream, misc
<1>1. /\ state \in [Sockets -> {"NONE", "CONNECT", "CLOSED"}]
      /\ pc[t] # "idle" => sock[t] \in Sockets
      /\ answer[t] # "none" => ppc = "idle"
  BY DEF SocketInv, SocketTypes, Owned, AnswerFirst
<1>2. {"open", "connect", "udpsend", "udprecv", "recv", "delay", "close", "shutdown"}
        \subseteq Places \ ({"idle"} \cup Waits)
  BY DEF Places, Waits
<1>3. CASE at_connect(t)
  BY <1>2, <1>3, MoveKeeps DEF at_connect
<1>4. ASSUME NEW next \in {"udpsend", "udprecv"}, UdpConnect(t, next) PROVE SocketInv'
  BY <1>2, <1>4, MoveKeeps DEF UdpConnect
<1>5. CASE at_closesocket(t)
  BY <1>2, <1>5, MoveKeeps DEF at_closesocket
<1>6. CASE RecvTimeout(t)
  BY <1>2, <1>6, MoveKeeps DEF RecvTimeout
<1>7. CASE ConnectDone(t)
  <2>1. pc[t] # "idle"
    BY <1>7 DEF ConnectDone
  <2>2. \E w \in {"NONE", "CONNECT", "CLOSED"} : state' = [state EXCEPT ![sock[t]] = w]
    BY <1>1, <1>7, <2>1 DEF ConnectDone
  <2> QED  BY <1>2, <1>7, <2>1, <2>2, MoveKeeps DEF ConnectDone
<1>8. CASE UdpConnectDone(t)
  <2>1. pc[t] # "idle"
    BY <1>8 DEF UdpConnectDone
  <2>2. \E w \in {"NONE", "CONNECT", "CLOSED"} : state' = [state EXCEPT ![sock[t]] = w]
    BY <1>1, <1>8, <2>1 DEF UdpConnectDone
  <2>3. PICK next \in {"open", "recv"} : Goto(t, next)
    BY <1>8 DEF UdpConnectDone
  <2> QED  BY <1>2, <1>8, <2>1, <2>2, <2>3, MoveKeeps DEF UdpConnectDone
<1>9. CASE at_recvfrom(t)
  <2>1. pc[t] # "idle"
    BY <1>9 DEF at_recvfrom
  <2>2. CASE state[sock[t]] = "CONNECT"
    <3>1. PICK len \in 1 .. MaxLen, empty \in {"open", "wait", "timedwait"} : Get(t, len, empty)
      BY <1>9, <2>2 DEF at_recvfrom
    <3> QED  BY <1>9, <2>1, <2>2, <3>1, GetKeeps DEF at_recvfrom, Waits
  <2>3. CASE state[sock[t]] # "CONNECT"
    BY <1>2, <1>9, <2>1, <2>3, MoveKeeps DEF at_recvfrom
  <2> QED  BY <2>2, <2>3
<1>10. CASE RecvCheck(t)
  <2>1. pc[t] # "idle" /\ Wait[pc[t]] \in Waits
    BY <1>10 DEF RecvCheck, Checks, Wait, Waits
  <2>2. CASE state[sock[t]] = "CONNECT"
    <3>1. PICK len \in 1 .. MaxLen : Get(t, len, Wait[pc[t]])
      BY <1>10, <2>2 DEF RecvCheck
    <3> QED  BY <1>10, <2>1, <2>2, <3>1, GetKeeps DEF RecvCheck
  <2>3. CASE state[sock[t]] # "CONNECT"
    BY <1>2, <1>10, <2>1, <2>3, MoveKeeps DEF RecvCheck
  <2> QED  BY <2>2, <2>3
<1>11. CASE CloseAfterDelay(t)
  <2>1. pc[t] # "idle"
    BY <1>11 DEF CloseAfterDelay
  <2>2. CASE state[sock[t]] = "CONNECT"
    BY <1>2, <1>11, <2>1, <2>2, MoveKeeps DEF CloseAfterDelay
  <2>3. CASE state[sock[t]] # "CONNECT"
    BY <1>11, <2>1, <2>3, FreeKeeps DEF CloseAfterDelay
  <2> QED  BY <2>2, <2>3
<1>12. CASE at_shutdown(t)
  <2>1. pc[t] # "idle"
    BY <1>12 DEF at_shutdown
  <2>2. CASE state[sock[t]] = "CONNECT"
    BY <1>2, <1>12, <2>1, <2>2, MoveKeeps DEF at_shutdown
  <2>3. CASE state[sock[t]] # "CONNECT"
    BY <1>12, <2>1, <2>3, FreeKeeps DEF at_shutdown
  <2> QED  BY <2>2, <2>3
<1>13. CASE CloseDone(t)
  BY <1>1, <1>13, FreeKeeps DEF CloseDone
<1>14. CASE GetMore(t)
  BY <1>14, GetKeeps DEF GetMore
<1> QED
  BY <1>3, <1>4, <1>5, <1>6, <1>7, <1>8, <1>9, <1>10, <1>11, <1>12, <1>13, <1>14,
     SocketKeeps, NoticeKeeps DEF Call, Continue

\* Every step keeps the invariant.
LEMMA SocketNext ==
  ASSUME CallerAbove, SocketInv, [Next]_vars
  PROVE  SocketInv'
<1>1. CASE Parser
  BY <1>1, NextKeeps, CallbackKeeps, ReleaseKeeps DEF Parser
<1>2. CASE \E t \in Tasks : Call(t) \/ Continue(t)
  BY <1>2, ThreadKeeps
<1>3. CASE \/ \E t \in Tasks : Answer(t)
           \/ \E s \in Sockets : RemoteSend(s) \/ RemoteClose(s)
  BY <1>3, ModemKeeps
<1>4. CASE UNCHANGED vars
  BY <1>4 DEF vars, SocketInv, SocketTypes, Owned, AnswerFirst,
              WaiterHasNotice
<1> QED  BY <1>1, <1>2, <1>3, <1>4 DEF Next

\* The invariant holds always.
LEMMA SocketAlways ==
  ASSUME CallerAbove
  PROVE  Spec => []SocketInv
BY SocketInit, SocketNext, PTL DEF Spec

-----------------------------------------------------------------------------
\* For any number of threads above the parser, and a semaphore of any width: no
\* thread in at_recvfrom waits for data that is in its list, or for a connection
\* that is closed, without a notice that is there or on its way.
THEOREM NoticeCorrect ==
  ASSUME CallerAbove
  PROVE  Spec => []WaiterHasNotice
BY SocketAlways, PTL DEF SocketInv
=============================================================================
