------------------------------ MODULE ATSocket ------------------------------
(***************************************************************************)
(* The AT socket layer (components/net/at/at_socket/at_socket.c): threads  *)
(* with a socket each, and the parser thread of the AT client, which runs  *)
(* the callbacks for received data and closed connections.                 *)
(*                                                                         *)
(* The operations of the device driver (at_dev_ops) are external.  Each    *)
(* sends an AT command and waits for its answer, so what the modem reports *)
(* about a socket and what it answers come to the parser in one order, on  *)
(* one UART.  The driver's at_closesocket fails only when there is no      *)
(* connection, its at_connect leaves none when it fails, and memory does   *)
(* not run out; sockets are asked for while the table has room.  The       *)
(* delay in at_closesocket may be over at any time, in the middle of a     *)
(* callback too.  The counters of at_do_event_changes are not modelled:    *)
(* nothing here reads them.                                                *)
(***************************************************************************)
EXTENDS Integers, Sequences

CONSTANTS
  Tasks,           \* threads that use sockets
  NULL,
  AT_SOCKETS_NUM,
  SemMod,          \* values of a semaphore
  Types,           \* SOCK_STREAM is "TCP", SOCK_DGRAM is "UDP"
  CallerAbove,     \* the threads' priority is above the parser's
  MaxLen,          \* bound: bytes in a packet, and bytes asked for
  MaxData,         \* bound: bytes sent over a connection
  MaxConn          \* bound: connections, and sockets

ASSUME NullAssumption   == NULL \notin Tasks
ASSUME TableAssumption  == AT_SOCKETS_NUM \in Nat \ {0}
ASSUME SemAssumption    == SemMod \in Nat /\ SemMod > 1
ASSUME SwitchAssumption == Types \subseteq {"TCP", "UDP"} /\ CallerAbove \in BOOLEAN
ASSUME BoundAssumption  == MaxLen \in Nat /\ MaxData \in Nat /\ MaxConn \in Nat

Sockets == 0 .. AT_SOCKETS_NUM - 1

VARIABLES
  magic, type, state, recv_notice, recvpkt_list,  \* sockets[]
  cb,                 \* at_set_event_cb has been called
  pc, sock, answer,   \* the threads: place, socket, the driver's result,
  want,               \*   len - content_pos in at_recvpkt_get
  ppc, urc,           \* the parser: place, what it handles
  uart,               \* what the modem has written
  link, sent,         \* the modem: connection of each socket, bytes sent on it
  conn, got,          \* history: each thread's connection, bytes it received
  nconn, nsock,       \* history: connections and sockets so far
  fault               \* history: the callback that met a freed socket

socks   == <<magic, type, state, recv_notice, recvpkt_list>>
parser  == <<ppc, urc>>
modem   == <<uart, link, sent, nconn>>
stream  == <<conn, got, want>>
misc    == <<cb, nsock, fault>>
vars == <<magic, type, state, recv_notice, recvpkt_list, cb, pc, sock,
          answer, want, ppc, urc, uart, link, sent, conn, got, nconn, nsock, fault>>

Goto(t, place) == pc' = [pc EXCEPT ![t] = place]

-----------------------------------------------------------------------------
(* The receive list: packets as the bytes not read yet *)

\* Mutant: a packet that is not used up is given up.
DropRest(t, len) ==
  LET s    == sock[t]
      pkt  == Head(recvpkt_list[s])
      rest == Tail(recvpkt_list[s])
      all  == Len(pkt) < len
  IN /\ got' = [got EXCEPT ![t] = @ \o IF all THEN pkt ELSE SubSeq(pkt, 1, len)]
     /\ recvpkt_list' = [recvpkt_list EXCEPT ![s] = rest]
     /\ want' = [want EXCEPT ![t] = IF all /\ rest # << >> THEN len - Len(pkt) ELSE 0]
     /\ Goto(t, IF all /\ rest # << >> THEN "get" ELSE "open")

\* Mutant: a packet that is used up stays in the list.
KeepEmpty(t, len) ==
  LET s    == sock[t]
      pkt  == Head(recvpkt_list[s])
      rest == Tail(recvpkt_list[s])
      all  == Len(pkt) < len
  IN /\ got' = [got EXCEPT ![t] = @ \o IF all THEN pkt ELSE SubSeq(pkt, 1, len)]
     /\ recvpkt_list' = [recvpkt_list EXCEPT ![s] =
          IF all THEN rest ELSE [@ EXCEPT ![1] = SubSeq(pkt, len + 1, Len(pkt))]]
     /\ want' = [want EXCEPT ![t] = IF all /\ rest # << >> THEN len - Len(pkt) ELSE 0]
     /\ Goto(t, IF all /\ rest # << >> THEN "get" ELSE "open")

\* A turn of at_recvpkt_get's loop, with len bytes still asked for: a packet that
\* is used up is deleted.  The loop goes on behind a packet that was not enough.
at_recvpkt_get(t, len) ==
  LET s    == sock[t]
      pkt  == Head(recvpkt_list[s])
      rest == Tail(recvpkt_list[s])
  IN \/ /\ Len(pkt) >= len
        /\ got' = [got EXCEPT ![t] = @ \o SubSeq(pkt, 1, len)]
        /\ recvpkt_list' = [recvpkt_list EXCEPT ![s] =
             IF Len(pkt) = len THEN rest ELSE [@ EXCEPT ![1] = SubSeq(pkt, len + 1, Len(pkt))]]
        /\ want' = [want EXCEPT ![t] = 0]
        /\ Goto(t, "open")
     \/ /\ Len(pkt) < len
        /\ got' = [got EXCEPT ![t] = @ \o pkt]
        /\ recvpkt_list' = [recvpkt_list EXCEPT ![s] = rest]
        /\ want' = [want EXCEPT ![t] = IF rest = << >> THEN 0 ELSE len - Len(pkt)]
        /\ Goto(t, IF rest = << >> THEN "open" ELSE "get")

-----------------------------------------------------------------------------
(* Opening, connecting and sending *)

\* at_socket, alloc_socket: the first slot without magic, while there is one.
at_socket(t, s) ==
  /\ pc[t] = "idle"
  /\ nsock < MaxConn
  /\ ~magic[s] /\ \A i \in Sockets : i < s => magic[i]
  /\ magic' = [magic EXCEPT ![s] = TRUE]
  /\ \E y \in Types : type' = [type EXCEPT ![s] = y]
  /\ state' = [state EXCEPT ![s] = "NONE"]
  /\ recvpkt_list' = [recvpkt_list EXCEPT ![s] = << >>]
  /\ recv_notice' = [recv_notice EXCEPT ![s] = 0]
  /\ sock' = [sock EXCEPT ![t] = s]
  /\ nsock' = nsock + 1
  /\ Goto(t, "open")
  /\ UNCHANGED <<cb, answer, parser, modem, stream, fault>>

\* at_connect up to the driver's call.
at_connect(t) ==
  /\ pc[t] = "open"
  /\ state[sock[t]] = "NONE"
  /\ Goto(t, "connect")
  /\ UNCHANGED <<socks, sock, answer, parser, modem, stream, misc>>

\* The rest of at_connect.
ConnectDone(t) ==
  /\ pc[t] = "connect"
  /\ answer[t] # "none"
  /\ state' = [state EXCEPT ![sock[t]] = IF answer[t] = "ok" THEN "CONNECT" ELSE @]
  /\ cb' = (cb \/ answer[t] = "ok")
  /\ answer' = [answer EXCEPT ![t] = "none"]
  /\ Goto(t, "open")
  /\ UNCHANGED <<magic, type, recv_notice, recvpkt_list, sock, parser,
                 modem, stream, nsock, fault>>

\* at_sendto and at_recvfrom with an address connect a UDP socket first, and set
\* no callback.
UdpConnect(t, next) ==
  /\ pc[t] = "open"
  /\ type[sock[t]] = "UDP"
  /\ state[sock[t]] = "NONE"
  /\ Goto(t, next)
  /\ UNCHANGED <<socks, sock, answer, parser, modem, stream, misc>>

UdpConnectDone(t) ==
  /\ pc[t] \in {"udpsend", "udprecv"}
  /\ answer[t] # "none"
  /\ state' = [state EXCEPT ![sock[t]] = IF answer[t] = "ok" THEN "CONNECT" ELSE @]
  /\ answer' = [answer EXCEPT ![t] = "none"]
  /\ Goto(t, IF answer[t] = "ok" /\ pc[t] = "udprecv" THEN "recv" ELSE "open")
  /\ UNCHANGED <<magic, type, recv_notice, recvpkt_list, sock, parser,
                 modem, stream, misc>>

-----------------------------------------------------------------------------
(* at_recvfrom *)

\* Starts to take up to len bytes from the list, or finds it empty and goes there.
Get(t, len, empty) ==
  \/ /\ recvpkt_list[sock[t]] = << >>
     /\ Goto(t, empty)
     /\ UNCHANGED <<recvpkt_list, got, want>>
  \/ /\ recvpkt_list[sock[t]] # << >>
     /\ at_recvpkt_get(t, len)

\* The next turn of the loop.
GetMore(t) ==
  /\ pc[t] = "get"
  /\ at_recvpkt_get(t, want[t])
  /\ UNCHANGED <<magic, type, state, recv_notice, sock, answer, parser,
                 modem, conn, misc>>

\* With unread data it does not wait, and with MSG_DONTWAIT never.  The wait is
\* timed if at_setsockopt(SO_RCVTIMEO) has set a timeout of a millisecond or more.
at_recvfrom(t) ==
  /\ pc[t] \in {"open", "recv"}
  /\ \/ /\ state[sock[t]] = "CONNECT"
        /\ \E len \in 1 .. MaxLen, empty \in {"open", "wait", "timedwait"} : Get(t, len, empty)
     \/ /\ state[sock[t]] # "CONNECT"
        /\ Goto(t, "open")
        /\ UNCHANGED <<recvpkt_list, got, want>>
  /\ UNCHANGED <<magic, type, state, recv_notice, sock, answer, parser,
                 modem, conn, misc>>

Waits  == {"wait", "timedwait"}
Checks == {"check", "timedcheck"}
Check  == [wait |-> "check", timedwait |-> "timedcheck"]
Wait   == [check |-> "wait", timedcheck |-> "timedwait"]

\* rt_sem_take(recv_notice)
RecvNotice(t) ==
  /\ pc[t] \in Waits
  /\ recv_notice[sock[t]] > 0
  /\ recv_notice' = [recv_notice EXCEPT ![sock[t]] = @ - 1]
  /\ Goto(t, Check[pc[t]])
  /\ UNCHANGED <<magic, type, state, recvpkt_list, sock, answer, parser,
                 modem, stream, misc>>

RecvTimeout(t) ==
  /\ pc[t] = "timedwait"
  /\ recv_notice[sock[t]] = 0
  /\ Goto(t, "open")
  /\ UNCHANGED <<socks, sock, answer, parser, modem, stream, misc>>

\* After a notice: an old one finds nothing, and the thread waits again.
RecvCheck(t) ==
  /\ pc[t] \in Checks
  /\ \/ /\ state[sock[t]] = "CONNECT"
        /\ \E len \in 1 .. MaxLen : Get(t, len, Wait[pc[t]])
     \/ /\ state[sock[t]] # "CONNECT"
        /\ Goto(t, "open")
        /\ UNCHANGED <<recvpkt_list, got, want>>
  /\ UNCHANGED <<magic, type, state, recv_notice, sock, answer, parser,
                 modem, conn, misc>>

-----------------------------------------------------------------------------
(* at_closesocket, at_shutdown, free_socket *)

free_socket(t) ==
  /\ magic' = [magic EXCEPT ![sock[t]] = FALSE]
  /\ type' = [type EXCEPT ![sock[t]] = "INVALID"]
  /\ state' = [state EXCEPT ![sock[t]] = "NONE"]
  /\ recv_notice' = [recv_notice EXCEPT ![sock[t]] = 0]
  /\ recvpkt_list' = [recvpkt_list EXCEPT ![sock[t]] = << >>]
  /\ sock' = [sock EXCEPT ![t] = NULL]
  /\ answer' = [answer EXCEPT ![t] = "none"]
  /\ got' = [got EXCEPT ![t] = << >>]
  /\ want' = [want EXCEPT ![t] = 0]
  /\ conn' = [conn EXCEPT ![t] = 0]
  /\ Goto(t, "idle")
  /\ UNCHANGED <<parser, modem, cb, nsock, fault>>

\* The delay of 100 ms
at_closesocket(t) ==
  /\ pc[t] = "open"
  /\ Goto(t, "delay")
  /\ UNCHANGED <<socks, sock, answer, parser, modem, stream, misc>>

\* After the delay, wherever the parser is: the state is changed in advance, and
\* the driver's at_closesocket called for a connected socket only.
CloseAfterDelay(t) ==
  /\ pc[t] = "delay"
  /\ \/ /\ state[sock[t]] = "CONNECT"
        /\ state' = [state EXCEPT ![sock[t]] = "CLOSED"]
        /\ Goto(t, "close")
        /\ UNCHANGED <<magic, type, recv_notice, recvpkt_list, sock,
                       answer, parser, modem, stream, misc>>
     \/ /\ state[sock[t]] # "CONNECT"
        /\ free_socket(t)

\* Mutant: the socket is freed while the modem still reports about it.
ShutdownUnasked(t) ==
  /\ pc[t] = "open"
  /\ free_socket(t)

\* No delay and no change of state.
at_shutdown(t) ==
  /\ pc[t] = "open"
  /\ \/ /\ state[sock[t]] = "CONNECT"
        /\ Goto(t, "shutdown")
        /\ UNCHANGED <<socks, sock, answer, parser, modem, stream, misc>>
     \/ /\ state[sock[t]] # "CONNECT"
        /\ free_socket(t)

\* The driver has answered, with success or not.
CloseDone(t) ==
  /\ pc[t] \in {"close", "shutdown"}
  /\ answer[t] # "none"
  /\ free_socket(t)

-----------------------------------------------------------------------------
(* The modem, and the driver's operations (external) *)

Write(entry) == uart' = Append(uart, entry)
Pending(t) == \E i \in 1 .. Len(uart) : uart[i].kind = "answer" /\ uart[i].of = t
Asked(t) == answer[t] = "none" /\ ~Pending(t)

\* The modem carries out a connect, or refuses.
DevConnect(t, ok) ==
  /\ pc[t] \in {"connect", "udpsend", "udprecv"}
  /\ Asked(t)
  /\ ok => link[sock[t]] = 0 /\ nconn < MaxConn
  /\ IF ok THEN /\ nconn' = nconn + 1
                /\ link' = [link EXCEPT ![sock[t]] = nconn + 1]
                /\ sent' = [sent EXCEPT ![sock[t]] = 0]
                /\ conn' = [conn EXCEPT ![t] = nconn + 1]
           ELSE UNCHANGED <<nconn, link, sent, conn>>
  /\ Write([kind |-> "answer", of |-> t, what |-> IF ok THEN "ok" ELSE "error"])
  /\ UNCHANGED <<socks, pc, sock, answer, parser, got, want, misc>>

\* The modem closes a connection, or finds that there is none.
DevClose(t) ==
  /\ pc[t] \in {"close", "shutdown"}
  /\ Asked(t)
  /\ link' = [link EXCEPT ![sock[t]] = 0]
  /\ Write([kind |-> "answer", of |-> t,
            what |-> IF link[sock[t]] = 0 THEN "error" ELSE "ok"])
  /\ UNCHANGED <<socks, pc, sock, answer, parser, sent, nconn, stream, misc>>

\* Data arrives from the peer.
RemoteSend(s) ==
  /\ link[s] # 0
  /\ \E n \in 1 .. MaxLen :
       /\ sent[s] + n <= MaxData
       /\ sent' = [sent EXCEPT ![s] = @ + n]
       /\ Write([kind |-> "recv", of |-> s,
                 what |-> [i \in 1 .. n |-> <<link[s], sent[s] + i>>]])
  /\ UNCHANGED <<socks, pc, sock, answer, parser, link, nconn, stream, misc>>

\* The peer closes the connection.
RemoteClose(s) ==
  /\ link[s] # 0
  /\ link' = [link EXCEPT ![s] = 0]
  /\ Write([kind |-> "closed", of |-> s, what |-> << >>])
  /\ UNCHANGED <<socks, pc, sock, answer, parser, sent, nconn, stream, misc>>

-----------------------------------------------------------------------------
(* The parser thread and the callbacks *)

Runnable(t) == \/ pc[t] \in {"recv", "get"} \cup Checks
               \/ answer[t] # "none"
               \/ pc[t] \in Waits /\ recv_notice[sock[t]] > 0
ParserRuns == CallerAbove => \A t \in Tasks : ~Runnable(t)

\* The parser runs the callback for a report.
Callback(e) ==
  /\ ppc' = e.kind
  /\ urc' = e

\* Mutant: the callback for closed connections has not been set.
RecvCallbackOnly ==
  LET e == Head(uart) IN
  /\ ParserRuns
  /\ ppc = "idle"
  /\ uart # << >>
  /\ uart' = Tail(uart)
  /\ \/ /\ e.kind = "answer"
        /\ answer' = [answer EXCEPT ![e.of] = e.what]
        /\ UNCHANGED parser
     \/ /\ e.kind # "answer"
        /\ IF cb /\ magic[e.of] /\ e.kind = "recv" THEN Callback(e)
                                                   ELSE UNCHANGED parser
        /\ UNCHANGED answer
  /\ UNCHANGED <<socks, pc, sock, link, sent, nconn, stream, misc>>

\* The next entry: an answer goes to the thread that waits for it; a report runs
\* a callback, if there is one and at_get_socket finds the socket.
ParserNext ==
  LET e == Head(uart) IN
  /\ ParserRuns
  /\ ppc = "idle"
  /\ uart # << >>
  /\ uart' = Tail(uart)
  /\ \/ /\ e.kind = "answer"
        /\ answer' = [answer EXCEPT ![e.of] = e.what]
        /\ UNCHANGED parser
     \/ /\ e.kind # "answer"
        /\ IF cb /\ magic[e.of] THEN Callback(e) ELSE UNCHANGED parser
        /\ UNCHANGED answer
  /\ UNCHANGED <<socks, pc, sock, link, sent, nconn, stream, misc>>

\* A callback goes on with a socket that has been freed: its semaphore and its
\* mutex are gone.
Meets(s) == fault' = IF magic[s] THEN fault ELSE urc.kind

\* A thread holds recv_lock between two turns of at_recvpkt_get's loop.
Locked(s) == \E t \in Tasks : pc[t] = "get" /\ sock[t] = s

\* at_recv_notice_cb: at_recvpkt_put under recv_lock
at_recv_notice_cb ==
  /\ ParserRuns
  /\ ppc = "recv"
  /\ ~Locked(urc.of)
  /\ Meets(urc.of)
  /\ recvpkt_list' = [recvpkt_list EXCEPT ![urc.of] = IF magic[urc.of]
                                                      THEN Append(@, urc.what) ELSE @]
  /\ ppc' = "notice"
  /\ UNCHANGED <<magic, type, state, recv_notice, pc, sock, answer, urc,
                 modem, stream, cb, nsock>>

\* Mutant: the thread is notified only of data.
ClosedSilently ==
  /\ ParserRuns
  /\ ppc = "closed"
  /\ Meets(urc.of)
  /\ state' = [state EXCEPT ![urc.of] = IF magic[urc.of] THEN "CLOSED" ELSE @]
  /\ ppc' = "idle"
  /\ UNCHANGED <<magic, type, recv_notice, recvpkt_list, pc, sock, answer,
                 urc, modem, stream, cb, nsock>>

at_closed_notice_cb ==
  /\ ParserRuns
  /\ ppc = "closed"
  /\ Meets(urc.of)
  /\ state' = [state EXCEPT ![urc.of] = IF magic[urc.of] THEN "CLOSED" ELSE @]
  /\ ppc' = "notice"
  /\ UNCHANGED <<magic, type, recv_notice, recvpkt_list, pc, sock, answer,
                 urc, modem, stream, cb, nsock>>

\* rt_sem_release(recv_notice), at the end of both callbacks
ReleaseNotice ==
  /\ ParserRuns
  /\ ppc = "notice"
  /\ Meets(urc.of)
  /\ recv_notice' = [recv_notice EXCEPT ![urc.of] = IF magic[urc.of]
                                                    THEN (@ + 1) % SemMod ELSE @]
  /\ ppc' = "idle"
  /\ urc' = NULL
  /\ UNCHANGED <<magic, type, state, recvpkt_list, pc, sock, answer, modem, stream, cb,
                 nsock>>

-----------------------------------------------------------------------------
Init ==
  /\ magic = [s \in Sockets |-> FALSE]
  /\ type = [s \in Sockets |-> "INVALID"]
  /\ state = [s \in Sockets |-> "NONE"]
  /\ recv_notice = [s \in Sockets |-> 0]
  /\ recvpkt_list = [s \in Sockets |-> << >>]
  /\ cb = FALSE
  /\ pc = [t \in Tasks |-> "idle"]
  /\ sock = [t \in Tasks |-> NULL]
  /\ answer = [t \in Tasks |-> "none"]
  /\ ppc = "idle"
  /\ urc = NULL
  /\ uart = << >>
  /\ link = [s \in Sockets |-> 0]
  /\ sent = [s \in Sockets |-> 0]
  /\ conn = [t \in Tasks |-> 0]
  /\ got = [t \in Tasks |-> << >>]
  /\ want = [t \in Tasks |-> 0]
  /\ nconn = 0
  /\ nsock = 0
  /\ fault = "none"

\* A thread starts a call.
Call(t) ==
  \/ \E s \in Sockets : at_socket(t, s)
  \/ at_connect(t)
  \/ \E next \in {"udpsend", "udprecv"} : UdpConnect(t, next)
  \/ pc[t] = "open" /\ at_recvfrom(t)
  \/ at_closesocket(t) \/ at_shutdown(t)

\* A thread goes on with its call.
Continue(t) ==
  \/ ConnectDone(t) \/ UdpConnectDone(t)
  \/ pc[t] = "recv" /\ at_recvfrom(t)
  \/ RecvNotice(t) \/ RecvTimeout(t) \/ RecvCheck(t) \/ GetMore(t)
  \/ CloseAfterDelay(t) \/ CloseDone(t)

Parser == ParserNext \/ at_recv_notice_cb \/ at_closed_notice_cb \/ ReleaseNotice

Answer(t) == (\E ok \in BOOLEAN : DevConnect(t, ok)) \/ DevClose(t)

Next ==
  \/ \E t \in Tasks : Call(t) \/ Continue(t) \/ Answer(t)
  \/ Parser
  \/ \E s \in Sockets : RemoteSend(s) \/ RemoteClose(s)

Spec == Init /\ [][Next]_vars

\* Threads and the parser run when they can, and the modem answers.  The parser
\* comes to run between the calls of threads above it.
FairSpec ==
  /\ Spec
  /\ \A t \in Tasks : WF_vars(Continue(t)) /\ WF_vars(Answer(t))
  /\ SF_vars(Parser)

-----------------------------------------------------------------------------
(* Properties *)

Bytes == (1 .. MaxConn) \X (1 .. MaxData)

TypeOK ==
  /\ magic \in [Sockets -> BOOLEAN]
  /\ type \in [Sockets -> {"INVALID", "TCP", "UDP"}]
  /\ state \in [Sockets -> {"NONE", "CONNECT", "CLOSED"}]
  /\ recv_notice \in [Sockets -> 0 .. SemMod - 1]
  /\ recvpkt_list \in [Sockets -> Seq(Seq(Bytes) \ {<< >>})]
  /\ cb \in BOOLEAN
  /\ pc \in [Tasks -> {"idle", "open", "connect", "udpsend", "udprecv", "recv", "get",
                       "delay", "close", "shutdown"} \cup Waits \cup Checks]
  /\ sock \in [Tasks -> Sockets \cup {NULL}]
  /\ answer \in [Tasks -> {"none", "ok", "error"}]
  /\ ppc \in {"idle", "recv", "closed", "notice"}
  /\ want \in [Tasks -> 0 .. MaxLen]
  /\ link \in [Sockets -> 0 .. MaxConn]
  /\ got \in [Tasks -> Seq(Bytes)]
  /\ fault \in {"none", "recv", "closed"}

\* at_recv_notice_cb works without a lock on the socket, and yet never meets one
\* that at_closesocket or at_shutdown has freed: a connected socket is freed only
\* when the driver has answered, and the answer comes through the parser, behind
\* the data.  at_closed_notice_cb has no such protection: it stores CLOSED itself,
\* and the thread, which then frees the socket without asking the driver, can do
\* so before the callback releases the semaphore; the delay of 100 ms in
\* at_closesocket makes that unlikely, and does not exclude it.
DataMeetsSocket == fault # "recv"

\* What a thread receives over TCP is what its peer sent over this connection,
\* from the first byte and without gaps, for packets of any size read in pieces
\* of any size; over UDP it is in order.
ReceivesInOrder ==
  \A t \in Tasks : \A i \in DOMAIN got[t] :
    /\ got[t][i][1] = conn[t]
    /\ IF type[sock[t]] = "TCP" THEN got[t][i][2] = i
                                ELSE i > 1 => got[t][i - 1][2] < got[t][i][2]

\* No wake-up is lost: a thread that waits while there is data for it, or after
\* its connection was closed, has a notice, or the parser is about to give it one.
WaiterHasNotice ==
  \A t \in Tasks : LET s == sock[t] IN
    pc[t] \in Waits /\ (recvpkt_list[s] # << >> \/ state[s] # "CONNECT") =>
      recv_notice[s] > 0 \/ (ppc = "notice" /\ urc.of = s)

\* A thread that waits for data over TCP returns when data has been sent to it
\* or its peer has closed the connection.
RecvReturns ==
  \A t \in Tasks :
    (/\ pc[t] \in Waits /\ type[sock[t]] = "TCP"
     /\ (link[sock[t]] # conn[t] \/ Len(got[t]) < sent[sock[t]])) ~> (pc[t] \notin Waits)
=============================================================================
