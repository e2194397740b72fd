--------------------------- MODULE ATStreamProofs ---------------------------
(* Theorems about the bytes that pass through ATSocket, for any number of  *)
(* threads and sockets whose threads run above the parser.                 *)
EXTENDS ATSocketProofs

(* What a byte is, on its way from the modem to at_recvfrom *)

Connects == {"connect", "udpsend", "udprecv"}
Closes   == {"close", "shutdown"}

\* Entry e of the UART is a report about socket s; it is the answer to thread t.
About(e, s)   == e.kind # "answer" /\ e.of = s
ReplyTo(e, t) == e.kind = "answer" /\ e.of = t
Data(e, s)    == e.kind = "recv" /\ e.of = s

\* No report about s comes after place k of the UART.
NoneAfter(u, s, k) == \A i \in 1 .. Len(u) : i > k => ~About(u[i], s)

\* The bytes of p are those of connection c that follow byte a.
Piece(p, c, a) == p # << >> /\ \A j \in 1 .. Len(p) : p[j] = <<c, a + j>>

\* The packets of l hold the bytes of connection c from the one behind a to b: P[i]
\* is the last byte before packet i.
Chain(l, c, a, b) ==
  \E P \in [1 .. Len(l) + 1 -> 0 .. MaxData] :
    /\ P[1] = a /\ P[Len(l) + 1] = b
    /\ \A i \in 1 .. Len(l) : P[i + 1] = P[i] + Len(l[i]) /\ Piece(l[i], c, P[i])

\* The reports about s hold the bytes of connection c from the one behind a to b.
Pipe(u, s, c, a, b) ==
  \E Q \in [1 .. Len(u) + 1 -> 0 .. MaxData] :
    /\ Q[1] = a /\ Q[Len(u) + 1] = b
    /\ \A i \in 1 .. Len(u) :
         /\ Data(u[i], s) => Q[i + 1] = Q[i] + Len(u[i].what) /\ Piece(u[i].what, c, Q[i])
         /\ ~Data(u[i], s) => Q[i + 1] = Q[i]

\* The parser is about to put data into the list of s, or to mark it closed.
InCallback(s) == ppc \in {"recv", "closed"} /\ urc.of = s

\* There is no connection at s, and nothing about it on its way.
Quiet(s) == link[s] = 0 /\ ~InCallback(s) /\ NoneAfter(uart, s, 0)

\* What thread t has read, its list and the callback under way hold the bytes of
\* its connection up to h, over TCP from the first one on.
Kept(t, h) ==
  \E o, m \in 0 .. MaxData :
    /\ type[sock[t]] = "TCP" => o = 0
    /\ \A i \in 1 .. Len(got[t]) : got[t][i] = <<conn[t], o + i>>
    /\ Chain(recvpkt_list[sock[t]], conn[t], o + Len(got[t]), m)
    /\ IF ppc = "recv" /\ urc.of = sock[t]
       THEN Piece(urc.what, conn[t], m) /\ h = m + Len(urc.what)
       ELSE h = m

Nothing(t) == got[t] = << >> /\ recvpkt_list[sock[t]] = << >>

\* Thread t has a socket that has not been connected.
Fresh(t) ==
  /\ state[sock[t]] = "NONE" /\ Nothing(t) /\ Quiet(sock[t])
  /\ answer[t] # "ok"
  /\ \A i \in 1 .. Len(uart) : ReplyTo(uart[i], t) => uart[i].what # "ok"

\* The modem has connected the socket of t, and t does not know it yet.
Connecting(t) ==
  /\ pc[t] \in Connects /\ Nothing(t) /\ ~InCallback(sock[t])
  /\ \/ answer[t] = "ok"
     \/ \E k \in 1 .. Len(uart) :
          /\ ReplyTo(uart[k], t) /\ uart[k].what = "ok"
          /\ \A i \in 1 .. Len(uart) : About(uart[i], sock[t]) => i > k

\* Nothing comes behind the report that the connection at s is closed.
ClosedLast(s) ==
  /\ \A i \in 1 .. Len(uart) :
       About(uart[i], s) /\ uart[i].kind = "closed" => link[s] = 0 /\ NoneAfter(uart, s, i)
  /\ ppc = "closed" /\ urc.of = s => link[s] = 0 /\ NoneAfter(uart, s, 0)

\* Nothing comes behind the answer to a close.
CloseLast(t) ==
  /\ answer[t] # "none" => Quiet(sock[t])
  /\ \A k \in 1 .. Len(uart) :
       ReplyTo(uart[k], t) => link[sock[t]] = 0 /\ NoneAfter(uart, sock[t], k)

\* Thread t has a socket that has been connected.
Carried(t) ==
  /\ link[sock[t]] \in {0, conn[t]}
  /\ state[sock[t]] = "NONE" => Connecting(t)
  /\ state[sock[t]] # "NONE" /\ type[sock[t]] = "TCP" => cb
  /\ \E h \in 0 .. MaxData : Pipe(uart, sock[t], conn[t], h, sent[sock[t]]) /\ Kept(t, h)
  /\ ClosedLast(sock[t])
  /\ state[sock[t]] = "CLOSED" /\ pc[t] # "close" => Quiet(sock[t])
  /\ pc[t] \in Closes => CloseLast(t)

ThreadInv(t) ==
  /\ pc[t] \in Connects => state[sock[t]] = "NONE"
  /\ pc[t] \in {"udpsend", "udprecv"} => type[sock[t]] = "UDP"
  /\ pc[t] = "get" => recvpkt_list[sock[t]] # << >>
  /\ IF conn[t] = 0 THEN Fresh(t) ELSE Carried(t)

\* Slots that no thread has.
Unused(s) == \A t \in Tasks : pc[t] # "idle" => sock[t] # s
SlotInv(s) == Unused(s) => Quiet(s) /\ recvpkt_list[s] = << >>

\* A thread has at most one answer on its way, and only while it waits for one.
Replies ==
  \A t \in Tasks :
    /\ pc[t] \notin Connects \cup Closes => answer[t] = "none" /\ ~Pending(t)
    /\ answer[t] # "none" => ~Pending(t)
    /\ \A i, j \in 1 .. Len(uart) : ReplyTo(uart[i], t) /\ ReplyTo(uart[j], t) => i = j

\* Without callbacks there is no data.
NoData == ~cb => /\ ppc = "idle"
                 /\ \A s \in Sockets : recvpkt_list[s] = << >>
                 /\ \A t \in Tasks : got[t] = << >>

StreamTypes ==
  /\ type \in [Sockets -> {"INVALID", "TCP", "UDP"}]
  /\ cb \in BOOLEAN
  /\ recvpkt_list \in [Sockets -> Seq(Seq(Nat \X Nat))]
  /\ got \in [Tasks -> Seq(Nat \X Nat)]
  /\ want \in [Tasks -> 0 .. MaxLen]
  /\ conn \in [Tasks -> 0 .. MaxConn]
  /\ link \in [Sockets -> 0 .. MaxConn]
  /\ sent \in [Sockets -> 0 .. MaxData]
  /\ nconn \in 0 .. MaxConn

StreamInv ==
  /\ StreamTypes /\ Replies /\ NoData
  /\ \A s \in Sockets : SlotInv(s)
  /\ \A t \in Tasks : IF pc[t] = "idle" THEN got[t] = << >> /\ conn[t] = 0 ELSE ThreadInv(t)

-----------------------------------------------------------------------------
(* Packets and reports in a row *)

Packet == Seq(Nat \X Nat)

\* Arithmetic that the steps below need as a fact of its own.
LEMMA Regroup ==
  ASSUME NEW a \in Nat, NEW n \in Nat, NEW k \in Nat
  PROVE  a + k = (a + n) + (k - n)
OBVIOUS

\* A function on 1 .. n is a sequence.
LEMMA FunctionIsSeq ==
  ASSUME NEW S, NEW n \in Nat, NEW f \in [1 .. n -> S]
  PROVE  f \in Seq(S)
OBVIOUS

\* A list without packets holds no bytes.
LEMMA ChainEmpty ==
  ASSUME NEW c, NEW a \in 0 .. MaxData
  PROVE  Chain(<< >>, c, a, a)
<1>1. PICK P : P = [i \in 1 .. 1 |-> a]
  OBVIOUS
<1>2. P \in [1 .. 1 -> 0 .. MaxData] /\ P[1] = a
  BY <1>1
<1>3. Len(<< >>) = 0
  OBVIOUS
<1> QED  BY <1>2, <1>3 DEF Chain

\* at_recvpkt_node_delete
LEMMA ChainTail ==
  ASSUME NEW l \in Seq(Packet), l # << >>, NEW c, NEW a, NEW b, Chain(l, c, a, b)
  PROVE  /\ Piece(Head(l), c, a)
         /\ a + Len(Head(l)) \in 0 .. MaxData
         /\ Chain(Tail(l), c, a + Len(Head(l)), b)
<1>1. PICK P \in [1 .. Len(l) + 1 -> 0 .. MaxData] :
        /\ P[1] = a /\ P[Len(l) + 1] = b
        /\ \A i \in 1 .. Len(l) : P[i + 1] = P[i] + Len(l[i]) /\ Piece(l[i], c, P[i])
  BY DEF Chain
<1>2. Len(l) \in Nat /\ Len(l) > 0 /\ Head(l) = l[1] /\ Len(Tail(l)) = Len(l) - 1
  OBVIOUS
<1>3. \A i \in 1 .. Len(l) - 1 : Tail(l)[i] = l[i + 1]
  OBVIOUS
<1>4. P[2] = a + Len(Head(l)) /\ Piece(Head(l), c, a) /\ P[2] \in 0 .. MaxData
  <2>1. 1 \in 1 .. Len(l) /\ 1 + 1 = 2 /\ 2 \in 1 .. Len(l) + 1
    BY <1>2
  <2> QED  BY <1>1, <1>2, <2>1
<1>5. PICK R : R = [i \in 1 .. Len(Tail(l)) + 1 |-> P[i + 1]]
  OBVIOUS
<1>6. R \in [1 .. Len(Tail(l)) + 1 -> 0 .. MaxData]
  BY <1>2, <1>5
<1>7. \A i \in 1 .. Len(Tail(l)) + 1 : R[i] = P[i + 1]
  BY <1>5
<1>8. R[1] = P[2] /\ R[Len(Tail(l)) + 1] = b
  BY <1>1, <1>2, <1>7
<1>9. ASSUME NEW i \in 1 .. Len(Tail(l))
      PROVE  R[i + 1] = R[i] + Len(Tail(l)[i]) /\ Piece(Tail(l)[i], c, R[i])
  <2>1. i + 1 \in 1 .. Len(l) /\ R[i] = P[i + 1] /\ R[i + 1] = P[(i + 1) + 1] /\ Tail(l)[i] = l[i + 1]
    BY <1>2, <1>3, <1>7
  <2> QED  BY <1>1, <2>1
<1> QED  BY <1>4, <1>6, <1>8, <1>9 DEF Chain

\* at_recvpkt_put
LEMMA ChainAppend ==
  ASSUME NEW l \in Seq(Packet), NEW p \in Packet, NEW c, NEW a, NEW m,
         Chain(l, c, a, m), Piece(p, c, m), m + Len(p) \in 0 .. MaxData
  PROVE  Chain(Append(l, p), c, a, m + Len(p))
<1>1. PICK P \in [1 .. Len(l) + 1 -> 0 .. MaxData] :
        /\ P[1] = a /\ P[Len(l) + 1] = m
        /\ \A i \in 1 .. Len(l) : P[i + 1] = P[i] + Len(l[i]) /\ Piece(l[i], c, P[i])
  BY DEF Chain
<1>2. Len(l) \in Nat /\ Len(Append(l, p)) = Len(l) + 1
  OBVIOUS
<1>3. /\ \A i \in 1 .. Len(l) : Append(l, p)[i] = l[i]
      /\ Append(l, p)[Len(l) + 1] = p
  OBVIOUS
<1>4. PICK R : R = [i \in 1 .. Len(l) + 2 |-> IF i = Len(l) + 2 THEN m + Len(p) ELSE P[i]]
  OBVIOUS
<1>5. R \in [1 .. Len(Append(l, p)) + 1 -> 0 .. MaxData]
  BY <1>2, <1>4
<1>6. /\ \A i \in 1 .. Len(l) + 1 : R[i] = P[i]
      /\ R[Len(l) + 2] = m + Len(p)
  BY <1>2, <1>4
<1>7. R[1] = a /\ R[Len(Append(l, p)) + 1] = m + Len(p)
  BY <1>1, <1>2, <1>6
<1>8. ASSUME NEW i \in 1 .. Len(Append(l, p))
      PROVE  R[i + 1] = R[i] + Len(Append(l, p)[i]) /\ Piece(Append(l, p)[i], c, R[i])
  <2>1. CASE i = Len(l) + 1
    <3>1. R[i] = m /\ R[i + 1] = m + Len(p) /\ Append(l, p)[i] = p
      BY <1>1, <1>2, <1>3, <1>6, <2>1
    <3> QED  BY <3>1
  <2>2. CASE i \in 1 .. Len(l)
    <3>1. R[i] = P[i] /\ R[i + 1] = P[i + 1] /\ Append(l, p)[i] = l[i]
      BY <1>2, <1>3, <1>6, <2>2
    <3> QED  BY <1>1, <2>2, <3>1
  <2> QED  BY <1>2, <2>1, <2>2
<1> QED  BY <1>5, <1>7, <1>8 DEF Chain

\* A part of a packet is read: pkt->bfsz_index moves on.
LEMMA PieceSplit ==
  ASSUME NEW p \in Packet, NEW c, NEW a \in Nat, Piece(p, c, a), NEW n \in 0 .. Len(p)
  PROVE  /\ SubSeq(p, 1, n) \in Packet /\ Len(SubSeq(p, 1, n)) = n
         /\ \A j \in 1 .. n : SubSeq(p, 1, n)[j] = <<c, a + j>>
         /\ SubSeq(p, n + 1, Len(p)) \in Packet /\ Len(SubSeq(p, n + 1, Len(p))) = Len(p) - n
         /\ n < Len(p) => Piece(SubSeq(p, n + 1, Len(p)), c, a + n)
<1>1. Len(p) \in Nat /\ n \in Nat /\ \A j \in 1 .. Len(p) : p[j] = <<c, a + j>>
  BY DEF Piece, Packet
<1>2. /\ SubSeq(p, 1, n) \in Packet /\ Len(SubSeq(p, 1, n)) = n
      /\ \A j \in 1 .. n : SubSeq(p, 1, n)[j] = p[j]
  BY <1>1 DEF Packet
<1>3. /\ SubSeq(p, n + 1, Len(p)) \in Packet /\ Len(SubSeq(p, n + 1, Len(p))) = Len(p) - n
      /\ \A j \in 1 .. Len(p) - n : SubSeq(p, n + 1, Len(p))[j] = p[n + j]
  BY <1>1 DEF Packet
<1>4. \A j \in 1 .. n : SubSeq(p, 1, n)[j] = <<c, a + j>>
  BY <1>1, <1>2
<1>5. ASSUME n < Len(p) PROVE Piece(SubSeq(p, n + 1, Len(p)), c, a + n)
  <2>1. ASSUME NEW j \in 1 .. Len(p) - n
        PROVE  SubSeq(p, n + 1, Len(p))[j] = <<c, (a + n) + j>>
    <3>1. n + j \in 1 .. Len(p) /\ a + (n + j) = (a + n) + j
      BY <1>1
    <3> QED  BY <1>1, <1>3, <3>1
  <2>2. SubSeq(p, n + 1, Len(p)) # << >>
    <3>1. Len(p) - n # 0
      BY <1>1, <1>5
    <3>2. Len(<< >>) = 0
      OBVIOUS
    <3> QED  BY <1>3, <3>1, <3>2
  <2> QED  BY <1>3, <2>1, <2>2 DEF Piece
<1> QED  BY <1>2, <1>3, <1>4, <1>5

\* The first packet loses its first n bytes.
LEMMA ChainTrim ==
  ASSUME NEW l \in Seq(Packet), l # << >>, NEW c, NEW a \in Nat, NEW b, Chain(l, c, a, b),
         NEW n \in Nat, n < Len(Head(l)), NEW k,
         k = [l EXCEPT ![1] = SubSeq(Head(l), n + 1, Len(Head(l)))]
  PROVE  k \in Seq(Packet) /\ a + n \in 0 .. MaxData /\ Chain(k, c, a + n, b)
<1>1. PICK P \in [1 .. Len(l) + 1 -> 0 .. MaxData] :
        /\ P[1] = a /\ P[Len(l) + 1] = b
        /\ \A i \in 1 .. Len(l) : P[i + 1] = P[i] + Len(l[i]) /\ Piece(l[i], c, P[i])
  BY DEF Chain
<1>2. Len(l) \in Nat /\ Len(l) > 0 /\ Head(l) = l[1] /\ Head(l) \in Packet
  OBVIOUS
<1>3. PICK q \in Packet : q = SubSeq(Head(l), n + 1, Len(Head(l)))
                         /\ Len(q) = Len(Head(l)) - n /\ Piece(q, c, a + n)
  <2>1. Piece(Head(l), c, a)
    BY <1>1, <1>2
  <2>2. n \in 0 .. Len(Head(l))
    BY <1>2 DEF Packet
  <2> QED  BY <1>2, <2>1, <2>2, PieceSplit
<1>4. k \in Seq(Packet) /\ Len(k) = Len(l) /\ k[1] = q /\ \A i \in 2 .. Len(l) : k[i] = l[i]
  BY <1>2, <1>3
<1>5. Len(Head(l)) \in Nat /\ P[2] = a + Len(Head(l)) /\ P[2] \in 0 .. MaxData
  <2>1. 1 \in 1 .. Len(l) /\ 1 + 1 = 2 /\ 2 \in 1 .. Len(l) + 1
    BY <1>2
  <2>2. P[2] = a + Len(Head(l)) /\ P[2] \in 0 .. MaxData
    BY <1>1, <1>2, <2>1
  <2>3. Len(Head(l)) \in Nat
    BY <1>2 DEF Packet
  <2> QED  BY <2>2, <2>3
<1>6. a + n \in 0 .. MaxData
  BY <1>5, BoundAssumption
<1>7. PICK R : R = [i \in 1 .. Len(k) + 1 |-> IF i = 1 THEN a + n ELSE P[i]]
  OBVIOUS
<1>8. R \in [1 .. Len(k) + 1 -> 0 .. MaxData]
  BY <1>4, <1>6, <1>7
<1>9. R[1] = a + n /\ \A i \in 2 .. Len(l) + 1 : R[i] = P[i]
  BY <1>2, <1>4, <1>7
<1>10. R[Len(k) + 1] = b
  BY <1>1, <1>2, <1>4, <1>9
<1>11. ASSUME NEW i \in 1 .. Len(k)
       PROVE  R[i + 1] = R[i] + Len(k[i]) /\ Piece(k[i], c, R[i])
  <2>1. CASE i = 1
    <3>1. R[i] = a + n /\ R[i + 1] = P[2] /\ k[i] = q
      BY <1>2, <1>4, <1>9, <2>1
    <3>2. P[2] = (a + n) + Len(q)
      <4>1. a + Len(Head(l)) = (a + n) + (Len(Head(l)) - n)
        BY <1>5, Regroup
      <4>2. Len(q) = Len(Head(l)) - n
        BY <1>3
      <4> QED  BY <1>5, <4>1, <4>2, Zenon
    <3> QED  BY <1>3, <3>1, <3>2
  <2>2. CASE i \in 2 .. Len(l)
    <3>1. R[i] = P[i] /\ R[i + 1] = P[i + 1] /\ k[i] = l[i]
      BY <1>2, <1>4, <1>9, <2>2
    <3> QED  BY <1>1, <2>2, <3>1
  <2> QED  BY <1>2, <1>4, <2>1, <2>2
<1> QED  BY <1>4, <1>6, <1>8, <1>9, <1>10, <1>11 DEF Chain

\* The bytes of a list are bytes of its connection that were sent.
LEMMA ChainBytes ==
  ASSUME NEW l \in Seq(Packet), NEW c \in 1 .. MaxConn, NEW a, NEW b, Chain(l, c, a, b)
  PROVE  l \in Seq(Seq(Bytes) \ {<< >>})
<1>1. PICK P \in [1 .. Len(l) + 1 -> 0 .. MaxData] :
        \A i \in 1 .. Len(l) : P[i + 1] = P[i] + Len(l[i]) /\ Piece(l[i], c, P[i])
  BY DEF Chain
<1>2. Len(l) \in Nat /\ \A i \in 1 .. Len(l) : l[i] \in Packet
  OBVIOUS
<1>3. ASSUME NEW i \in 1 .. Len(l) PROVE l[i] \in Seq(Bytes) \ {<< >>}
  <2>1. /\ P[i] \in 0 .. MaxData /\ P[i] + Len(l[i]) \in 0 .. MaxData
        /\ l[i] # << >> /\ \A j \in 1 .. Len(l[i]) : l[i][j] = <<c, P[i] + j>>
        /\ Len(l[i]) \in Nat
    <3>1. i + 1 \in 1 .. Len(l) + 1 /\ i \in 1 .. Len(l) + 1
      BY <1>2
    <3>2. P[i] \in 0 .. MaxData /\ P[i + 1] \in 0 .. MaxData
      BY <3>1
    <3>3. P[i + 1] = P[i] + Len(l[i]) /\ Piece(l[i], c, P[i])
      BY <1>1
    <3>4. Len(l[i]) \in Nat
      BY <1>2 DEF Packet
    <3> QED  BY <3>2, <3>3, <3>4 DEF Piece
  <2>2. \A j \in 1 .. Len(l[i]) : l[i][j] \in Bytes
    <3> TAKE j \in 1 .. Len(l[i])
    <3>1. P[i] + j \in 1 .. MaxData
      BY <2>1, BoundAssumption
    <3>2. l[i][j] = <<c, P[i] + j>>
      BY <2>1
    <3> QED  BY <3>1, <3>2 DEF Bytes
  <2>3. l[i] \in Seq(Nat \X Nat)
    BY <1>2 DEF Packet
  <2>4. l[i] = [j \in 1 .. Len(l[i]) |-> l[i][j]]
    BY <2>3
  <2>5. l[i] \in [1 .. Len(l[i]) -> Bytes]
    BY <2>2, <2>4
  <2>6. l[i] \in Seq(Bytes)
    BY <2>1, <2>5, FunctionIsSeq
  <2> QED  BY <2>1, <2>6
<1>4. l = [i \in 1 .. Len(l) |-> l[i]]
  OBVIOUS
<1>5. l \in [1 .. Len(l) -> Seq(Bytes) \ {<< >>}]
  BY <1>3, <1>4
<1> QED  BY <1>2, <1>5, FunctionIsSeq

\* An entry about nobody's data moves no byte.
LEMMA PipeZero ==
  ASSUME NEW u \in Seq(Report \cup Reply), NEW s, NEW c, NEW a \in 0 .. MaxData,
         NoneAfter(u, s, 0)
  PROVE  Pipe(u, s, c, a, a)
<1>1. Len(u) \in Nat /\ \A i \in 1 .. Len(u) : i > 0 /\ u[i] \in Report \cup Reply
  OBVIOUS
<1>2. \A i \in 1 .. Len(u) : ~Data(u[i], s)
  BY <1>1 DEF NoneAfter, About, Data
<1>3. PICK Q : Q = [i \in 1 .. Len(u) + 1 |-> a]
  OBVIOUS
<1>4. Q \in [1 .. Len(u) + 1 -> 0 .. MaxData] /\ \A i \in 1 .. Len(u) + 1 : Q[i] = a
  BY <1>3
<1>5. 1 \in 1 .. Len(u) + 1 /\ Len(u) + 1 \in 1 .. Len(u) + 1
      /\ \A i \in 1 .. Len(u) : i \in 1 .. Len(u) + 1 /\ i + 1 \in 1 .. Len(u) + 1
  BY <1>1
<1> QED  BY <1>2, <1>4, <1>5 DEF Pipe

\* The parser takes the first entry.
LEMMA PipeTail ==
  ASSUME NEW u \in Seq(Report \cup Reply), u # << >>, NEW s, NEW c, NEW a, NEW b,
         Pipe(u, s, c, a, b)
  PROVE  /\ ~Data(Head(u), s) => Pipe(Tail(u), s, c, a, b)
         /\ Data(Head(u), s) => /\ Piece(Head(u).what, c, a)
                                /\ a + Len(Head(u).what) \in 0 .. MaxData
                                /\ Pipe(Tail(u), s, c, a + Len(Head(u).what), b)
<1>1. PICK Q \in [1 .. Len(u) + 1 -> 0 .. MaxData] :
        /\ Q[1] = a /\ Q[Len(u) + 1] = b
        /\ \A i \in 1 .. Len(u) :
             /\ Data(u[i], s) => Q[i + 1] = Q[i] + Len(u[i].what) /\ Piece(u[i].what, c, Q[i])
             /\ ~Data(u[i], s) => Q[i + 1] = Q[i]
  BY DEF Pipe
<1>2. Len(u) \in Nat /\ Len(u) > 0 /\ Head(u) = u[1] /\ Len(Tail(u)) = Len(u) - 1
  OBVIOUS
<1>3. \A i \in 1 .. Len(u) - 1 : Tail(u)[i] = u[i + 1]
  OBVIOUS
<1>4. /\ Q[2] \in 0 .. MaxData
      /\ Data(Head(u), s) => Q[2] = a + Len(Head(u).what) /\ Piece(Head(u).what, c, a)
      /\ ~Data(Head(u), s) => Q[2] = a
  <2>1. 1 \in 1 .. Len(u) /\ 1 + 1 = 2 /\ 2 \in 1 .. Len(u) + 1
    BY <1>2
  <2> QED  BY <1>1, <1>2, <2>1
<1>5. PICK R : R = [i \in 1 .. Len(Tail(u)) + 1 |-> Q[i + 1]]
  OBVIOUS
<1>6. R \in [1 .. Len(Tail(u)) + 1 -> 0 .. MaxData]
  BY <1>2, <1>5
<1>7. \A i \in 1 .. Len(Tail(u)) + 1 : R[i] = Q[i + 1]
  BY <1>5
<1>8. R[1] = Q[2] /\ R[Len(Tail(u)) + 1] = b
  BY <1>1, <1>2, <1>7
<1>9. ASSUME NEW i \in 1 .. Len(Tail(u))
      PROVE  /\ Data(Tail(u)[i], s) => /\ R[i + 1] = R[i] + Len(Tail(u)[i].what)
                                       /\ Piece(Tail(u)[i].what, c, R[i])
             /\ ~Data(Tail(u)[i], s) => R[i + 1] = R[i]
  <2>1. i + 1 \in 1 .. Len(u) /\ R[i] = Q[i + 1] /\ R[i + 1] = Q[(i + 1) + 1] /\ Tail(u)[i] = u[i + 1]
    BY <1>2, <1>3, <1>7
  <2> QED  BY <1>1, <2>1
<1>10. Pipe(Tail(u), s, c, Q[2], b)
  BY <1>6, <1>8, <1>9 DEF Pipe
<1> QED  BY <1>4, <1>10

\* The modem writes an entry.
LEMMA PipeAppend ==
  ASSUME NEW u \in Seq(Report \cup Reply), NEW e \in Report \cup Reply, NEW s, NEW c, NEW a,
         NEW m, NEW b \in 0 .. MaxData, Pipe(u, s, c, a, m),
         \/ ~Data(e, s) /\ b = m
         \/ Data(e, s) /\ b = m + Len(e.what) /\ Piece(e.what, c, m)
  PROVE  Pipe(Append(u, e), s, c, a, b)
<1>1. PICK Q \in [1 .. Len(u) + 1 -> 0 .. MaxData] :
        /\ Q[1] = a /\ Q[Len(u) + 1] = m
        /\ \A i \in 1 .. Len(u) :
             /\ Data(u[i], s) => Q[i + 1] = Q[i] + Len(u[i].what) /\ Piece(u[i].what, c, Q[i])
             /\ ~Data(u[i], s) => Q[i + 1] = Q[i]
  BY DEF Pipe
<1>2. Len(u) \in Nat /\ Len(Append(u, e)) = Len(u) + 1
  OBVIOUS
<1>3. PICK v : v = Append(u, e)
  OBVIOUS
<1>4. Len(v) = Len(u) + 1 /\ v[Len(u) + 1] = e /\ \A i \in 1 .. Len(u) : v[i] = u[i]
  BY <1>3
<1>5. PICK R : R = [i \in 1 .. Len(u) + 2 |-> IF i = Len(u) + 2 THEN b ELSE Q[i]]
  OBVIOUS
<1>6. R \in [1 .. Len(v) + 1 -> 0 .. MaxData]
  BY <1>2, <1>4, <1>5
<1>7. /\ \A i \in 1 .. Len(u) + 1 : R[i] = Q[i]
      /\ R[Len(u) + 2] = b
  BY <1>2, <1>5
<1>8. R[1] = a /\ R[Len(v) + 1] = b
  BY <1>1, <1>2, <1>4, <1>7
<1>9. ASSUME NEW i \in 1 .. Len(v)
      PROVE  /\ Data(v[i], s) => R[i + 1] = R[i] + Len(v[i].what) /\ Piece(v[i].what, c, R[i])
             /\ ~Data(v[i], s) => R[i + 1] = R[i]
  <2>1. CASE i = Len(u) + 1
    <3>1. R[i] = m /\ R[i + 1] = b /\ v[i] = e
      BY <1>1, <1>2, <1>4, <1>7, <2>1
    <3> QED  BY <3>1
  <2>2. CASE i \in 1 .. Len(u)
    <3>1. R[i] = Q[i] /\ R[i + 1] = Q[i + 1] /\ v[i] = u[i]
      BY <1>2, <1>4, <1>7, <2>2
    <3> QED  BY <1>1, <2>2, <3>1
  <2> QED  BY <1>2, <1>4, <2>1, <2>2
<1> QED  BY <1>3, <1>6, <1>8, <1>9 DEF Pipe

\* Bytes that are sent or on their way are in range.
LEMMA PipeEnds ==
  ASSUME NEW u \in Seq(Report \cup Reply), NEW s, NEW c, NEW a, NEW b, Pipe(u, s, c, a, b)
  PROVE  a \in 0 .. MaxData /\ b \in 0 .. MaxData
BY DEF Pipe

-----------------------------------------------------------------------------
(* The steps of a thread *)

\* The invariant of a thread speaks of the thread, of its socket, and of the parser.
LEMMA OtherThread ==
  ASSUME NEW u \in Tasks, ThreadInv(u), UNCHANGED <<uart, ppc, urc>>, cb => cb',
         pc'[u] = pc[u], sock'[u] = sock[u], answer'[u] = answer[u], got'[u] = got[u],
         conn'[u] = conn[u], state'[sock[u]] = state[sock[u]], type'[sock[u]] = type[sock[u]],
         recvpkt_list'[sock[u]] = recvpkt_list[sock[u]], link'[sock[u]] = link[sock[u]],
         sent'[sock[u]] = sent[sock[u]]
  PROVE  ThreadInv(u)'
<1>1. /\ Nothing(u)' <=> Nothing(u)
      /\ InCallback(sock[u])' <=> InCallback(sock[u])
      /\ Quiet(sock[u])' <=> Quiet(sock[u])
  BY DEF Nothing, Quiet, InCallback
<1>2. Fresh(u) => Fresh(u)'
  BY <1>1 DEF Fresh, Quiet, InCallback
<1>3. \A h \in 0 .. MaxData : Kept(u, h) => Kept(u, h)'
  BY DEF Kept
<1>4. /\ Connecting(u) => Connecting(u)'
      /\ ClosedLast(sock[u]) => ClosedLast(sock[u])'
      /\ CloseLast(u) => CloseLast(u)'
  BY <1>1 DEF Connecting, ClosedLast, CloseLast, Quiet, InCallback
<1>5. Carried(u) => Carried(u)'
  BY <1>1, <1>3, <1>4 DEF Carried, ClosedLast, Quiet, InCallback
<1> QED  BY <1>2, <1>5 DEF ThreadInv

\* A step of a thread within its call touches its own socket only.
LEMMA ThreadStep ==
  ASSUME SocketInv, StreamInv, NEW t \in Tasks, pc[t] # "idle",
         NEW next \in Places \ {"idle"}, pc' = [pc EXCEPT ![t] = next],
         UNCHANGED <<type, sock, conn, link, sent, nconn, uart, ppc, urc>>, cb => cb',
         StreamTypes', NoData', ThreadInv(t)',
         \A s \in Sockets : s # sock[t] =>
           state'[s] = state[s] /\ recvpkt_list'[s] = recvpkt_list[s],
         \A u \in Tasks : u # t => got'[u] = got[u] /\ answer'[u] = answer[u],
         answer'[t] \in {"none", answer[t]},
         next \notin Connects \cup Closes => answer'[t] = "none" /\ ~Pending(t)
  PROVE  StreamInv'
<1>1. /\ pc'[t] = next /\ \A u \in Tasks : u # t => pc'[u] = pc[u]
      /\ \A u \in Tasks : pc'[u] = "idle" <=> pc[u] = "idle"
  BY DEF SocketInv, SocketTypes
<1>2. ASSUME NEW u \in Tasks, u # t, pc[u] # "idle" PROVE ThreadInv(u)'
  <2>1. sock[u] # sock[t] /\ sock[u] \in Sockets
    BY <1>2 DEF SocketInv, Owned
  <2>2. ThreadInv(u)
    BY <1>2 DEF StreamInv
  <2> QED  BY <1>1, <1>2, <2>1, <2>2, OtherThread
<1>3. ASSUME NEW s \in Sockets PROVE SlotInv(s)'
  <2>1. SlotInv(s)
    BY DEF StreamInv
  <2>2. Unused(s)' => Unused(s) /\ s # sock[t]
    BY <1>1 DEF Unused
  <2> QED  BY <2>1, <2>2 DEF SlotInv, Quiet, InCallback
<1>4. Replies'
  <2> SUFFICES ASSUME NEW u \in Tasks
               PROVE  /\ pc'[u] \notin Connects \cup Closes => answer'[u] = "none" /\ ~Pending(u)
                      /\ answer'[u] # "none" => ~Pending(u)
                      /\ \A i, j \in 1 .. Len(uart) :
                           ReplyTo(uart[i], u) /\ ReplyTo(uart[j], u) => i = j
    BY DEF Replies, Pending
  <2> QED  BY <1>1 DEF StreamInv, Replies
<1>5. ASSUME NEW u \in Tasks, pc[u] = "idle" PROVE got'[u] = << >> /\ conn'[u] = 0
  BY <1>5 DEF StreamInv
<1> QED  BY <1>1, <1>2, <1>3, <1>4, <1>5 DEF StreamInv

\* A step that leaves the list and what was read alone.
LEMMA QuietStep ==
  ASSUME SocketInv, StreamInv, NEW t \in Tasks, pc[t] # "idle",
         NEW next \in Places \ {"idle"}, pc' = [pc EXCEPT ![t] = next],
         UNCHANGED <<type, recvpkt_list, sock, got, want, conn, link, sent, nconn, uart, ppc,
                     urc>>,
         cb' \in {cb, TRUE}, ThreadInv(t)',
         \/ UNCHANGED state
         \/ \E w \in {"NONE", "CONNECT", "CLOSED"} : state' = [state EXCEPT ![sock[t]] = w],
         \/ UNCHANGED answer
         \/ answer' = [answer EXCEPT ![t] = "none"],
         next \notin Connects \cup Closes => answer'[t] = "none" /\ ~Pending(t)
  PROVE  StreamInv'
<1>1. StreamTypes' /\ NoData' /\ (cb => cb')
  BY DEF StreamInv, StreamTypes, NoData
<1>2. \A s \in Sockets : s # sock[t] => state'[s] = state[s]
  BY DEF SocketInv, SocketTypes
<1>3. answer'[t] \in {"none", answer[t]} /\ \A u \in Tasks : u # t => answer'[u] = answer[u]
  BY DEF SocketInv, SocketTypes
<1> QED  BY <1>1, <1>2, <1>3, ThreadStep

\* What the places of a thread do not change.
LEMMA SameData ==
  ASSUME NEW t \in Tasks,
         UNCHANGED <<type, recvpkt_list, sock, got, conn, link, sent, uart, ppc, urc>>
  PROVE  /\ Nothing(t)' <=> Nothing(t)
         /\ InCallback(sock[t])' <=> InCallback(sock[t])
         /\ Quiet(sock[t])' <=> Quiet(sock[t])
         /\ ClosedLast(sock[t])' <=> ClosedLast(sock[t])
         /\ (\E h \in 0 .. MaxData : Pipe(uart, sock[t], conn[t], h, sent[sock[t]]) /\ Kept(t, h))'
            <=> \E h \in 0 .. MaxData : Pipe(uart, sock[t], conn[t], h, sent[sock[t]]) /\ Kept(t, h)
BY DEF Nothing, InCallback, Quiet, ClosedLast, Kept

\* A thread that has a socket and asks the driver nothing.
LEMMA Settled ==
  ASSUME StreamInv, NEW t \in Tasks, pc[t] # "idle", pc[t] \notin Connects \cup Closes
  PROVE  /\ answer[t] = "none" /\ ~Pending(t)
         /\ \A i \in 1 .. Len(uart) : ~ReplyTo(uart[i], t)
         /\ ThreadInv(t)
         /\ state[sock[t]] = "NONE" => conn[t] = 0 /\ Fresh(t)
         /\ state[sock[t]] # "NONE" => conn[t] # 0 /\ Carried(t)
<1>1. answer[t] = "none" /\ ~Pending(t) /\ ThreadInv(t)
  BY DEF StreamInv, Replies
<1>2. \A i \in 1 .. Len(uart) : ~ReplyTo(uart[i], t)
  BY <1>1 DEF Pending, ReplyTo
<1>3. Fresh(t) => state[sock[t]] = "NONE"
  BY DEF Fresh
<1>4. Carried(t) => state[sock[t]] # "NONE"
  BY DEF Carried, Connecting
<1> QED  BY <1>1, <1>2, <1>3, <1>4 DEF ThreadInv

\* A step to a place where the driver is not asked.
LEMMA PlainMove ==
  ASSUME SocketInv, StreamInv, NEW t \in Tasks, pc[t] # "idle",
         pc[t] \notin Connects \cup Closes,
         NEW next \in Places \ ({"idle", "get"} \cup Connects \cup Closes),
         pc' = [pc EXCEPT ![t] = next],
         UNCHANGED <<type, state, recvpkt_list, cb, sock, answer, want, got, conn, link, sent,
                     nconn, uart, ppc, urc>>
  PROVE  StreamInv'
<1>1. pc'[t] = next
  BY DEF SocketInv, SocketTypes
<1>2. ThreadInv(t)'
  <2>1. CASE state[sock[t]] = "NONE"
    <3>1. conn[t] = 0 /\ Fresh(t)
      BY <2>1, Settled
    <3>2. Fresh(t)'
      BY <3>1, SameData DEF Fresh
    <3> QED  BY <1>1, <3>1, <3>2 DEF ThreadInv, Connects
  <2>2. CASE state[sock[t]] # "NONE"
    <3>1. conn[t] # 0 /\ Carried(t)
      BY <2>2, Settled
    <3>2. Carried(t)'
      BY <1>1, <2>2, <3>1, SameData DEF Carried, Closes
    <3> QED  BY <1>1, <3>1, <3>2 DEF ThreadInv, Connects
  <2> QED  BY <2>1, <2>2
<1> QED  BY <1>2, Settled, QuietStep

\* at_connect, and a UDP socket that is connected by its first use.
LEMMA AskConnect ==
  ASSUME SocketInv, StreamInv, NEW t \in Tasks,
         at_connect(t) \/ \E next \in {"udpsend", "udprecv"} : UdpConnect(t, next)
  PROVE  StreamInv'
<1>1. PICK next \in Connects :
        /\ pc' = [pc EXCEPT ![t] = next]
        /\ next \in {"udpsend", "udprecv"} => type[sock[t]] = "UDP"
  BY DEF at_connect, UdpConnect, Connects, Goto
<1>2. /\ pc[t] = "open" /\ state[sock[t]] = "NONE"
      /\ UNCHANGED <<type, state, recvpkt_list, cb, sock, answer, want, got, conn, link, sent,
                     nconn, uart, ppc, urc>>
  BY DEF at_connect, UdpConnect, socks, parser, modem, stream, misc
<1>3. pc'[t] = next
  BY <1>1 DEF SocketInv, SocketTypes
<1>4. conn[t] = 0 /\ Fresh(t) /\ answer[t] = "none" /\ ~Pending(t)
  BY <1>2, Settled DEF Connects, Closes
<1>5. Fresh(t)'
  BY <1>2, <1>4, SameData DEF Fresh
<1>6. ThreadInv(t)'
  BY <1>1, <1>2, <1>3, <1>4, <1>5 DEF ThreadInv, Connects
<1>7. next \in Places \ {"idle"} /\ pc[t] # "idle"
  BY <1>2 DEF Places, Connects
<1> QED  BY <1>1, <1>2, <1>4, <1>6, <1>7, QuietStep

\* A thread asks the driver to close a connected socket.
LEMMA AskClose ==
  ASSUME SocketInv, StreamInv, NEW t \in Tasks, pc[t] \in {"open", "delay"},
         state[sock[t]] = "CONNECT", NEW next \in Closes, pc' = [pc EXCEPT ![t] = next],
         \/ UNCHANGED state /\ next = "shutdown"
         \/ state' = [state EXCEPT ![sock[t]] = "CLOSED"] /\ next = "close",
         UNCHANGED <<type, recvpkt_list, cb, sock, answer, want, got, conn, link, sent,
                     nconn, uart, ppc, urc>>
  PROVE  StreamInv'
<1>1. pc'[t] = next /\ next \in Places \ {"idle"} /\ pc[t] # "idle"
  BY DEF SocketInv, SocketTypes, Places, Closes
<1>2. /\ conn[t] # 0 /\ Carried(t) /\ answer[t] = "none" /\ ~Pending(t)
      /\ \A i \in 1 .. Len(uart) : ~ReplyTo(uart[i], t)
  BY Settled DEF Connects, Closes
<1>3. sock[t] \in Sockets /\ state'[sock[t]] # "NONE"
      /\ (state'[sock[t]] = "CLOSED" => next = "close")
  BY <1>1 DEF SocketInv, Owned, SocketTypes
<1>4. CloseLast(t)'
  BY <1>2 DEF CloseLast
<1>5. Carried(t)'
  BY <1>1, <1>2, <1>3, <1>4, SameData DEF Carried
<1>6. ThreadInv(t)'
  BY <1>1, <1>2, <1>5 DEF ThreadInv, Connects, Closes
<1> QED  BY <1>1, <1>2, <1>6, QuietStep

\* The rest of at_connect, and of the connect of a UDP socket: an answer of success
\* is the one to the connection that was made.
LEMMA ConnectAnswered ==
  ASSUME SocketInv, StreamInv, NEW t \in Tasks, ConnectDone(t) \/ UdpConnectDone(t)
  PROVE  StreamInv'
<1>1. /\ pc[t] \in Connects /\ answer[t] # "none"
      /\ answer' = [answer EXCEPT ![t] = "none"]
      /\ state' = [state EXCEPT ![sock[t]] = IF answer[t] = "ok" THEN "CONNECT" ELSE @]
      /\ cb' \in {cb, TRUE}
      /\ answer[t] = "ok" /\ pc[t] = "connect" => cb'
      /\ UNCHANGED <<type, recvpkt_list, sock, want, got, conn, link, sent, nconn, uart, ppc, urc>>
  BY DEF ConnectDone, UdpConnectDone, Connects, parser, modem, stream, misc,
         StreamInv, StreamTypes
<1>2. PICK next \in {"open", "recv"} : pc' = [pc EXCEPT ![t] = next]
  BY DEF ConnectDone, UdpConnectDone, Goto
<1>3. pc[t] # "idle" /\ sock[t] \in Sockets /\ pc'[t] = next /\ answer'[t] = "none"
  BY <1>1, <1>2 DEF SocketInv, SocketTypes, Owned, Connects
<1>4. ~Pending(t) /\ \A i \in 1 .. Len(uart) : ~ReplyTo(uart[i], t)
  BY <1>1 DEF StreamInv, Replies, Pending, ReplyTo
<1>5. ThreadInv(t) /\ state[sock[t]] = "NONE"
  BY <1>1, <1>3 DEF StreamInv, ThreadInv
<1>6. ThreadInv(t)'
  <2>1. CASE answer[t] = "ok"
    <3>1. state'[sock[t]] = "CONNECT"
      BY <1>1, <1>3, <2>1 DEF SocketInv, SocketTypes
    <3>2. conn[t] # 0 /\ Carried(t)
      BY <1>5, <2>1 DEF ThreadInv, Fresh
    <3>3. type[sock[t]] = "TCP" => cb'
      BY <1>1, <1>5, <2>1 DEF ThreadInv, Connects
    <3>4. Carried(t)'
      BY <1>1, <1>2, <1>3, <3>1, <3>2, <3>3, SameData DEF Carried, Closes
    <3> QED  BY <1>1, <1>3, <3>1, <3>2, <3>4 DEF ThreadInv, Connects
  <2>2. CASE answer[t] # "ok"
    <3>1. state'[sock[t]] = "NONE"
      BY <1>1, <1>3, <1>5, <2>2 DEF SocketInv, SocketTypes
    <3>2. conn[t] = 0 /\ Fresh(t)
      BY <1>4, <1>5, <2>2 DEF ThreadInv, Carried, Connecting
    <3>3. Fresh(t)'
      BY <1>1, <1>3, <3>1, <3>2, SameData DEF Fresh
    <3> QED  BY <1>1, <1>3, <3>1, <3>2, <3>3 DEF ThreadInv, Connects
  <2> QED  BY <2>1, <2>2
<1>7. \E w \in {"NONE", "CONNECT", "CLOSED"} : state' = [state EXCEPT ![sock[t]] = w]
  BY <1>1, <1>5
<1>8. next \in Places \ {"idle"} /\ next \notin Connects \cup Closes
  BY DEF Places, Connects, Closes
<1> QED  BY <1>1, <1>2, <1>3, <1>4, <1>6, <1>7, <1>8, QuietStep

\* Sequence g grows by bytes of connection c that follow byte a.
Extends(g, f, n, c, a) ==
  /\ g \in Packet /\ Len(g) = Len(f) + n
  /\ \A i \in 1 .. Len(f) : g[i] = f[i]
  /\ \A j \in 1 .. n : g[Len(f) + j] = <<c, a + j>>

\* What is read goes behind what was read before.
LEMMA ConcatExtends ==
  ASSUME NEW f \in Packet, NEW p \in Packet, NEW n \in Nat, Len(p) = n, NEW c, NEW a,
         \A j \in 1 .. n : p[j] = <<c, a + j>>
  PROVE  Extends(f \o p, f, n, c, a)
<1>1. Len(f) \in Nat
  BY DEF Packet
<1>2. f \o p \in Packet /\ Len(f \o p) = Len(f) + n /\ \A i \in 1 .. Len(f) : (f \o p)[i] = f[i]
  BY DEF Packet
<1>3. ASSUME NEW j \in 1 .. n PROVE (f \o p)[Len(f) + j] = <<c, a + j>>
  <2>1. (f \o p)[Len(f) + j] = p[j]
    BY <1>1 DEF Packet
  <2> QED  BY <2>1
<1> QED  BY <1>2, <1>3 DEF Extends

\* A turn of at_recvpkt_get moves n bytes from the head of the list to the reader.
LEMMA TurnMoves ==
  ASSUME SocketInv, StreamInv, NEW t \in Tasks, sock[t] \in Sockets,
         NEW len \in 0 .. MaxLen, at_recvpkt_get(t, len),
         recvpkt_list[sock[t]] # << >>, NEW c, NEW a \in Nat, NEW b,
         Chain(recvpkt_list[sock[t]], c, a, b)
  PROVE  \E n \in Nat : /\ Extends(got'[t], got[t], n, c, a)
                        /\ recvpkt_list'[sock[t]] \in Seq(Packet)
                        /\ Chain(recvpkt_list'[sock[t]], c, a + n, b)
                        /\ a + n \in 0 .. MaxData
<1>1. PICK l \in Seq(Packet) : l = recvpkt_list[sock[t]]
  BY DEF StreamInv, StreamTypes, Packet
<1>2. l # << >> /\ Chain(l, c, a, b) /\ Head(l) \in Packet /\ Tail(l) \in Seq(Packet)
  BY <1>1
<1>3. Len(Head(l)) \in Nat /\ len \in Nat
  BY <1>2, BoundAssumption DEF Packet
<1>4. Piece(Head(l), c, a) /\ a + Len(Head(l)) \in 0 .. MaxData
      /\ Chain(Tail(l), c, a + Len(Head(l)), b)
  BY <1>2, ChainTail
<1>5. got[t] \in Packet /\ recvpkt_list = [s \in Sockets |-> recvpkt_list[s]]
      /\ got = [u \in Tasks |-> got[u]]
  BY DEF StreamInv, StreamTypes, Packet
<1>6. CASE Len(Head(l)) < len
  <2>1. got'[t] = got[t] \o Head(l) /\ recvpkt_list'[sock[t]] = Tail(l)
    <3>1. /\ got' = [got EXCEPT ![t] = @ \o Head(l)]
          /\ recvpkt_list' = [recvpkt_list EXCEPT ![sock[t]] = Tail(l)]
      <4>1. ~(Len(Head(l)) >= len)
        BY <1>3, <1>6
      <4> QED  BY <1>1, <4>1, Zenon DEF at_recvpkt_get
    <3> QED  BY <1>5, <3>1
  <2>2. \A j \in 1 .. Len(Head(l)) : Head(l)[j] = <<c, a + j>>
    BY <1>4 DEF Piece
  <2>3. Extends(got'[t], got[t], Len(Head(l)), c, a)
    BY <1>2, <1>3, <1>5, <2>1, <2>2, ConcatExtends
  <2> QED  BY <1>2, <1>3, <1>4, <2>1, <2>3
<1>7. CASE Len(Head(l)) >= len
  <2>1. /\ got' = [got EXCEPT ![t] = @ \o SubSeq(Head(l), 1, len)]
        /\ recvpkt_list' = [recvpkt_list EXCEPT ![sock[t]] =
             IF Len(Head(l)) = len THEN Tail(l)
                ELSE [l EXCEPT ![1] = SubSeq(Head(l), len + 1, Len(Head(l)))]]
    <3>1. ~(Len(Head(l)) < len)
      BY <1>3, <1>7
    <3> QED  BY <1>1, <3>1, Zenon DEF at_recvpkt_get
  <2>2. got'[t] = got[t] \o SubSeq(Head(l), 1, len)
    BY <1>5, <2>1
  <2>3. len \in 0 .. Len(Head(l))
    BY <1>3, <1>7
  <2>4. /\ SubSeq(Head(l), 1, len) \in Packet /\ Len(SubSeq(Head(l), 1, len)) = len
        /\ \A j \in 1 .. len : SubSeq(Head(l), 1, len)[j] = <<c, a + j>>
    BY <1>2, <1>4, <2>3, PieceSplit
  <2>5. Extends(got'[t], got[t], len, c, a)
    BY <1>3, <1>5, <2>2, <2>4, ConcatExtends
  <2>6. CASE Len(Head(l)) = len
    <3>1. recvpkt_list'[sock[t]] = Tail(l)
      BY <1>5, <2>1, <2>6
    <3> QED  BY <1>2, <1>3, <1>4, <2>5, <2>6, <3>1
  <2>7. CASE Len(Head(l)) # len
    <3>1. recvpkt_list'[sock[t]] = [l EXCEPT ![1] = SubSeq(Head(l), len + 1, Len(Head(l)))]
      BY <1>5, <2>1, <2>7
    <3>2. len < Len(Head(l))
      BY <1>3, <1>7, <2>7
    <3>3. /\ recvpkt_list'[sock[t]] \in Seq(Packet) /\ a + len \in 0 .. MaxData
          /\ Chain(recvpkt_list'[sock[t]], c, a + len, b)
      BY <1>2, <1>3, <3>1, <3>2, ChainTrim
    <3> QED  BY <1>3, <2>5, <3>3
  <2> QED  BY <2>6, <2>7
<1> QED  BY <1>3, <1>6, <1>7

\* What the reader has grows by what its list loses.
LEMMA TurnKept ==
  ASSUME SocketInv, StreamInv, NEW t \in Tasks, sock[t] \in Sockets,
         NEW len \in 0 .. MaxLen, at_recvpkt_get(t, len),
         recvpkt_list[sock[t]] # << >>, UNCHANGED <<type, sock, conn, ppc, urc>>,
         NEW h \in 0 .. MaxData, Kept(t, h)
  PROVE  Kept(t, h)' /\ got'[t] \in Packet /\ recvpkt_list'[sock[t]] \in Seq(Packet)
<1>1. PICK o \in 0 .. MaxData, m \in 0 .. MaxData :
        /\ type[sock[t]] = "TCP" => o = 0
        /\ \A i \in 1 .. Len(got[t]) : got[t][i] = <<conn[t], o + i>>
        /\ Chain(recvpkt_list[sock[t]], conn[t], o + Len(got[t]), m)
        /\ IF ppc = "recv" /\ urc.of = sock[t]
           THEN Piece(urc.what, conn[t], m) /\ h = m + Len(urc.what)
           ELSE h = m
  BY DEF Kept
<1>2. o \in Nat /\ Len(got[t]) \in Nat /\ o + Len(got[t]) \in Nat
  <2>1. got[t] \in Seq(Nat \X Nat)
    BY DEF StreamInv, StreamTypes
  <2>2. Len(got[t]) \in Nat
    BY <2>1
  <2> QED  BY <2>2
<1>3. PICK n \in Nat : /\ Extends(got'[t], got[t], n, conn[t], o + Len(got[t]))
                      /\ recvpkt_list'[sock[t]] \in Seq(Packet)
                      /\ Chain(recvpkt_list'[sock[t]], conn[t], (o + Len(got[t])) + n, m)
  BY <1>1, <1>2, TurnMoves
<1>4. Len(got'[t]) = Len(got[t]) + n /\ got'[t] \in Packet
  BY <1>3 DEF Extends
<1>5. (o + Len(got[t])) + n = o + Len(got'[t])
  BY <1>2, <1>4
<1>6. ASSUME NEW i \in 1 .. Len(got'[t]) PROVE got'[t][i] = <<conn[t], o + i>>
  <2>1. CASE i \in 1 .. Len(got[t])
    BY <1>1, <1>3, <2>1 DEF Extends
  <2>2. CASE i \notin 1 .. Len(got[t])
    <3>1. PICK j \in 1 .. n : i = Len(got[t]) + j
      <4>1. i - Len(got[t]) \in 1 .. n /\ i = Len(got[t]) + (i - Len(got[t]))
        BY <1>2, <1>4, <2>2
      <4> QED  BY <4>1
    <3>2. (o + Len(got[t])) + j = o + i
      BY <1>2, <3>1
    <3>3. got'[t][i] = <<conn[t], (o + Len(got[t])) + j>>
      BY <1>3, <3>1 DEF Extends
    <3> QED  BY <3>2, <3>3
  <2> QED  BY <2>1, <2>2
<1>7. Chain(recvpkt_list'[sock[t]], conn[t], o + Len(got'[t]), m)
  BY <1>3, <1>5
<1>8. Kept(t, h)'
  BY <1>1, <1>6, <1>7 DEF Kept
<1> QED  BY <1>3, <1>4, <1>8

\* A turn of at_recvpkt_get keeps the invariant.
LEMMA TurnKeeps ==
  ASSUME SocketInv, StreamInv, NEW t \in Tasks, pc[t] # "idle",
         pc[t] \notin Connects \cup Closes, NEW len \in 0 .. MaxLen, at_recvpkt_get(t, len),
         recvpkt_list[sock[t]] # << >>,
         UNCHANGED <<type, state, cb, sock, answer, conn, link, sent, nconn, uart, ppc, urc>>
  PROVE  StreamInv'
<1>1. sock[t] \in Sockets /\ pc \in [Tasks -> Places]
  BY DEF SocketInv, SocketTypes, Owned
<1>2. PICK l \in Seq(Packet) : l = recvpkt_list[sock[t]]
  BY <1>1 DEF StreamInv, StreamTypes, Packet
<1>3. l # << >> /\ Head(l) \in Packet /\ Len(Head(l)) \in Nat /\ len \in Nat /\ MaxLen \in Nat
  <2>1. l # << >> /\ Head(l) \in Packet /\ len \in Nat /\ MaxLen \in Nat
    BY <1>2, BoundAssumption
  <2> QED  BY <2>1 DEF Packet
<1>4. /\ \E k : recvpkt_list' = [recvpkt_list EXCEPT ![sock[t]] = k]
      /\ \E g : got' = [got EXCEPT ![t] = g]
  BY DEF at_recvpkt_get
<1>5. /\ recvpkt_list' = [recvpkt_list EXCEPT ![sock[t]] = recvpkt_list'[sock[t]]]
      /\ got' = [got EXCEPT ![t] = got'[t]]
  BY <1>1, <1>4 DEF StreamInv, StreamTypes
<1>6. PICK next \in {"open", "get"}, w \in 0 .. MaxLen :
        /\ pc' = [pc EXCEPT ![t] = next]
        /\ want' = [want EXCEPT ![t] = w]
        /\ next = "get" => recvpkt_list'[sock[t]] # << >>
  <2>1. CASE Len(Head(l)) >= len
    <3>1. ~(Len(Head(l)) < len)
      BY <1>3, <2>1
    <3>2. /\ want' = [want EXCEPT ![t] = 0]
          /\ pc' = [pc EXCEPT ![t] = "open"]
      BY <1>2, <3>1, Zenon DEF at_recvpkt_get, Goto
    <3>3. 0 \in 0 .. MaxLen
      BY <1>3
    <3> QED  BY <3>2, <3>3
  <2>2. CASE Len(Head(l)) < len
    <3>1. ~(Len(Head(l)) >= len)
      BY <1>3, <2>2
    <3>2. PICK w : w = IF Tail(l) = << >> THEN 0 ELSE len - Len(Head(l))
      OBVIOUS
    <3>3. w \in 0 .. MaxLen
      BY <1>3, <2>2, <3>2
    <3>4. /\ recvpkt_list' = [recvpkt_list EXCEPT ![sock[t]] = Tail(l)]
          /\ want' = [want EXCEPT ![t] = w]
          /\ pc' = [pc EXCEPT ![t] = IF Tail(l) = << >> THEN "open" ELSE "get"]
      BY <1>2, <3>1, <3>2, Zenon DEF at_recvpkt_get, Goto
    <3>5. recvpkt_list'[sock[t]] = Tail(l)
      BY <1>1, <3>4 DEF StreamInv, StreamTypes
    <3> QED  BY <3>3, <3>4, <3>5
  <2> QED  BY <1>3, <2>1, <2>2
<1>7. /\ conn[t] # 0 /\ Carried(t) /\ ThreadInv(t) /\ answer[t] = "none" /\ ~Pending(t)
      /\ state[sock[t]] # "NONE"
  BY Settled DEF Fresh, Nothing
<1>8. /\ pc'[t] = next
      /\ \A s \in Sockets : s # sock[t] => recvpkt_list'[s] = recvpkt_list[s]
      /\ \A u \in Tasks : u # t => got'[u] = got[u]
  BY <1>1, <1>5, <1>6 DEF StreamInv, StreamTypes
<1>9. PICK h \in 0 .. MaxData : Pipe(uart, sock[t], conn[t], h, sent[sock[t]]) /\ Kept(t, h)
  BY <1>7 DEF Carried
<1>10. Kept(t, h)' /\ got'[t] \in Packet /\ recvpkt_list'[sock[t]] \in Seq(Packet)
  BY <1>1, <1>9, TurnKept
<1>11. Carried(t)'
  <2>1. /\ Quiet(sock[t])' <=> Quiet(sock[t])
        /\ ClosedLast(sock[t])' <=> ClosedLast(sock[t])
    BY DEF Quiet, ClosedLast, InCallback
  <2> QED  BY <1>6, <1>7, <1>8, <1>9, <1>10, <2>1 DEF Carried, Closes
<1>12. ThreadInv(t)'
  BY <1>6, <1>7, <1>8, <1>11 DEF ThreadInv, Connects
<1>13. StreamTypes'
  <2>1. recvpkt_list' \in [Sockets -> Seq(Seq(Nat \X Nat))]
    BY <1>5, <1>10 DEF StreamInv, StreamTypes, Packet
  <2>2. got' \in [Tasks -> Seq(Nat \X Nat)]
    BY <1>5, <1>10 DEF StreamInv, StreamTypes, Packet
  <2>3. want' \in [Tasks -> 0 .. MaxLen]
    BY <1>6 DEF StreamInv, StreamTypes
  <2> QED  BY <2>1, <2>2, <2>3 DEF StreamInv, StreamTypes
<1>14. NoData'
  BY <1>1 DEF StreamInv, NoData
<1>15. next \in Places \ {"idle"} /\ next \notin Connects \cup Closes
  BY DEF Places, Connects, Closes
<1> QED  BY <1>6, <1>7, <1>8, <1>12, <1>13, <1>14, <1>15, ThreadStep

\* at_recvfrom, whatever it finds.
LEMMA RecvKeeps ==
  ASSUME SocketInv, StreamInv, NEW t \in Tasks,
         at_recvfrom(t) \/ RecvCheck(t) \/ GetMore(t)
  PROVE  StreamInv'
<1>1. /\ pc[t] \in {"open", "recv", "get"} \cup Checks
      /\ UNCHANGED <<type, state, cb, sock, answer, conn, link, sent, nconn, uart, ppc, urc>>
  BY DEF at_recvfrom, RecvCheck, GetMore, parser, modem, misc
<1>2. pc[t] # "idle" /\ pc[t] \notin Connects \cup Closes
  BY <1>1 DEF Checks, Connects, Closes
<1>3. \A len \in 1 .. MaxLen : len \in 0 .. MaxLen
  BY BoundAssumption
<1>4. Waits \cup {"open"} \subseteq Places \ ({"idle", "get"} \cup Connects \cup Closes)
  BY DEF Places, Waits, Connects, Closes
<1>5. ASSUME NEW len \in 0 .. MaxLen, NEW empty \in Waits \cup {"open"}, Get(t, len, empty)
      PROVE  StreamInv'
  <2>1. CASE recvpkt_list[sock[t]] # << >>
    BY <1>1, <1>2, <1>5, <2>1, TurnKeeps DEF Get
  <2>2. CASE recvpkt_list[sock[t]] = << >>
    BY <1>1, <1>2, <1>4, <1>5, <2>2, PlainMove DEF Get, Goto
  <2> QED  BY <2>1, <2>2
<1>6. CASE pc' = [pc EXCEPT ![t] = "open"] /\ UNCHANGED <<recvpkt_list, got, want>>
  BY <1>1, <1>2, <1>4, <1>6, PlainMove
<1>7. CASE at_recvfrom(t)
  <2>1. CASE state[sock[t]] = "CONNECT"
    <3>1. PICK len \in 1 .. MaxLen, empty \in {"open", "wait", "timedwait"} : Get(t, len, empty)
      BY <1>7, <2>1 DEF at_recvfrom
    <3> QED  BY <1>3, <1>5, <3>1 DEF Waits
  <2>2. CASE state[sock[t]] # "CONNECT"
    BY <1>6, <1>7, <2>2 DEF at_recvfrom, Goto
  <2> QED  BY <2>1, <2>2
<1>8. CASE RecvCheck(t)
  <2>1. CASE state[sock[t]] = "CONNECT"
    <3>1. PICK len \in 1 .. MaxLen : Get(t, len, Wait[pc[t]])
      BY <1>8, <2>1 DEF RecvCheck
    <3>2. Wait[pc[t]] \in Waits
      BY <1>8 DEF RecvCheck, Checks, Wait, Waits
    <3> QED  BY <1>3, <1>5, <3>1, <3>2
  <2>2. CASE state[sock[t]] # "CONNECT"
    BY <1>6, <1>8, <2>2 DEF RecvCheck, Goto
  <2> QED  BY <2>1, <2>2
<1>9. CASE GetMore(t)
  <2>1. want[t] \in 0 .. MaxLen
    BY DEF StreamInv, StreamTypes
  <2>2. recvpkt_list[sock[t]] # << >>
    BY <1>2, <1>9 DEF GetMore, StreamInv, ThreadInv
  <2> QED  BY <1>1, <1>2, <1>9, <2>1, <2>2, TurnKeeps DEF GetMore
<1> QED  BY <1>7, <1>8, <1>9

\* A socket is freed when nothing about it is on its way.
LEMMA FreeStream ==
  ASSUME SocketInv, StreamInv, NEW t \in Tasks, pc[t] # "idle", free_socket(t),
         Quiet(sock[t]), ~Pending(t)
  PROVE  StreamInv'
<1>1. sock[t] \in Sockets
  BY DEF SocketInv, Owned
<1>2. /\ type' = [type EXCEPT ![sock[t]] = "INVALID"]
      /\ state' = [state EXCEPT ![sock[t]] = "NONE"]
      /\ recvpkt_list' = [recvpkt_list EXCEPT ![sock[t]] = << >>]
      /\ sock' = [sock EXCEPT ![t] = NULL]
      /\ answer' = [answer EXCEPT ![t] = "none"]
      /\ got' = [got EXCEPT ![t] = << >>]
      /\ want' = [want EXCEPT ![t] = 0]
      /\ conn' = [conn EXCEPT ![t] = 0]
      /\ pc' = [pc EXCEPT ![t] = "idle"]
      /\ UNCHANGED <<cb, ppc, urc, uart, link, sent, nconn>>
  BY DEF free_socket, Goto, parser, modem
<1>3. \A s \in Sockets : s # sock[t] =>
        type'[s] = type[s] /\ state'[s] = state[s] /\ recvpkt_list'[s] = recvpkt_list[s]
  BY <1>2 DEF SocketInv, SocketTypes, StreamInv, StreamTypes
<1>4. \A u \in Tasks : u # t =>
        /\ pc'[u] = pc[u] /\ sock'[u] = sock[u] /\ answer'[u] = answer[u]
        /\ got'[u] = got[u] /\ conn'[u] = conn[u]
  BY <1>2 DEF SocketInv, SocketTypes, StreamInv, StreamTypes
<1>5. pc'[t] = "idle" /\ answer'[t] = "none" /\ got'[t] = << >> /\ conn'[t] = 0
  BY <1>2 DEF SocketInv, SocketTypes, StreamInv, StreamTypes
<1>6. recvpkt_list'[sock[t]] = << >>
  BY <1>1, <1>2 DEF StreamInv, StreamTypes
<1>7. StreamTypes'
  <2>1. << >> \in Seq(Seq(Nat \X Nat)) /\ << >> \in Seq(Nat \X Nat)
    OBVIOUS
  <2>2. 0 \in 0 .. MaxLen /\ 0 \in 0 .. MaxConn
    BY BoundAssumption
  <2>3. recvpkt_list' \in [Sockets -> Seq(Seq(Nat \X Nat))] /\ got' \in [Tasks -> Seq(Nat \X Nat)]
    BY <1>2, <2>1 DEF StreamInv, StreamTypes
  <2>4. want' \in [Tasks -> 0 .. MaxLen] /\ conn' \in [Tasks -> 0 .. MaxConn]
    BY <1>2, <2>2 DEF StreamInv, StreamTypes
  <2> QED  BY <1>2, <2>3, <2>4 DEF StreamInv, StreamTypes
<1>8. NoData'
  <2>1. \A s \in Sockets : recvpkt_list[s] = << >> => recvpkt_list'[s] = << >>
    BY <1>3, <1>6
  <2>2. \A u \in Tasks : got[u] = << >> => got'[u] = << >>
    BY <1>4, <1>5
  <2> QED  BY <1>2, <2>1, <2>2 DEF StreamInv, NoData
<1>9. ASSUME NEW u \in Tasks, pc'[u] # "idle" PROVE ThreadInv(u)'
  <2>1. u # t /\ pc[u] # "idle"
    BY <1>4, <1>5, <1>9
  <2>2. sock[u] # sock[t] /\ sock[u] \in Sockets
    BY <2>1 DEF SocketInv, Owned
  <2>3. ThreadInv(u)
    BY <2>1 DEF StreamInv
  <2> QED  BY <1>2, <1>3, <1>4, <2>1, <2>2, <2>3, OtherThread
<1>10. ASSUME NEW u \in Tasks, pc'[u] = "idle" PROVE got'[u] = << >> /\ conn'[u] = 0
  BY <1>4, <1>5, <1>10 DEF StreamInv
<1>11. ASSUME NEW s \in Sockets PROVE SlotInv(s)'
  <2>1. Quiet(s)' <=> Quiet(s)
    BY <1>2 DEF Quiet, InCallback
  <2>2. CASE s = sock[t]
    BY <1>6, <2>1, <2>2 DEF SlotInv
  <2>3. CASE s # sock[t]
    <3>1. Unused(s)' => Unused(s)
      BY <1>4, <2>3 DEF Unused
    <3> QED  BY <1>3, <2>1, <2>3, <3>1 DEF SlotInv, StreamInv
  <2> QED  BY <2>2, <2>3
<1>12. Replies'
  <2> SUFFICES ASSUME NEW u \in Tasks
               PROVE  /\ pc'[u] \notin Connects \cup Closes => answer'[u] = "none" /\ ~Pending(u)
                      /\ answer'[u] # "none" => ~Pending(u)
                      /\ \A i, j \in 1 .. Len(uart) :
                           ReplyTo(uart[i], u) /\ ReplyTo(uart[j], u) => i = j
    BY <1>2 DEF Replies, Pending
  <2>1. CASE u = t
    BY <1>5, <2>1 DEF StreamInv, Replies
  <2>2. CASE u # t
    BY <1>4, <2>2 DEF StreamInv, Replies
  <2> QED  BY <2>1, <2>2
<1> QED  BY <1>7, <1>8, <1>9, <1>10, <1>11, <1>12 DEF StreamInv

\* free_socket is called when the socket has no connection: it never had one, its
\* peer closed it, or the driver has answered the close.
LEMMA FreeKeepsStream ==
  ASSUME SocketInv, StreamInv, NEW t \in Tasks, free_socket(t),
         \/ pc[t] \in {"open", "delay"} /\ state[sock[t]] # "CONNECT"
         \/ pc[t] \in Closes /\ answer[t] # "none"
  PROVE  StreamInv'
<1>1. pc[t] # "idle" /\ sock[t] \in Sockets
  BY DEF Closes, SocketInv, Owned
<1>2. CASE pc[t] \in {"open", "delay"} /\ state[sock[t]] # "CONNECT"
  <2>1. pc[t] \notin Connects \cup Closes
    BY <1>2 DEF Connects, Closes
  <2>2. state[sock[t]] \in {"NONE", "CLOSED"}
    BY <1>1, <1>2 DEF SocketInv, SocketTypes
  <2>3. Quiet(sock[t]) /\ ~Pending(t)
    BY <1>1, <1>2, <2>1, <2>2, Settled DEF Fresh, Carried
  <2> QED  BY <1>1, <2>3, FreeStream
<1>3. CASE pc[t] \in Closes /\ answer[t] # "none"
  <2>1. ThreadInv(t) /\ ~Pending(t)
    BY <1>1, <1>3 DEF StreamInv, Replies
  <2>2. Quiet(sock[t])
    BY <1>3, <2>1 DEF ThreadInv, Fresh, Carried, CloseLast
  <2> QED  BY <1>1, <2>1, <2>2, FreeStream
<1> QED  BY <1>2, <1>3

\* at_socket takes a slot about which nothing is on its way.
LEMMA SocketStream ==
  ASSUME SocketInv, StreamInv, NEW t \in Tasks, NEW s \in Sockets, at_socket(t, s)
  PROVE  StreamInv'
<1>1. /\ pc[t] = "idle" /\ ~magic[s]
      /\ \E y \in Types : type' = [type EXCEPT ![s] = y]
      /\ state' = [state EXCEPT ![s] = "NONE"]
      /\ recvpkt_list' = [recvpkt_list EXCEPT ![s] = << >>]
      /\ sock' = [sock EXCEPT ![t] = s]
      /\ pc' = [pc EXCEPT ![t] = "open"]
      /\ UNCHANGED <<cb, answer, want, got, conn, ppc, urc, uart, link, sent, nconn>>
  BY DEF at_socket, Goto, parser, modem, stream
<1>2. \A i \in Sockets : i # s =>
        type'[i] = type[i] /\ state'[i] = state[i] /\ recvpkt_list'[i] = recvpkt_list[i]
  BY <1>1 DEF SocketInv, SocketTypes, StreamInv, StreamTypes
<1>3. recvpkt_list'[s] = << >> /\ state'[s] = "NONE"
  BY <1>1 DEF SocketInv, SocketTypes, StreamInv, StreamTypes
<1>4. /\ pc'[t] = "open" /\ sock'[t] = s
      /\ \A u \in Tasks : u # t => pc'[u] = pc[u] /\ sock'[u] = sock[u]
  BY <1>1 DEF SocketInv, SocketTypes
<1>5. \A u \in Tasks : pc[u] # "idle" => u # t /\ sock[u] # s /\ sock[u] \in Sockets
  BY <1>1 DEF SocketInv, Owned
<1>6. Quiet(s)
  BY <1>5 DEF StreamInv, SlotInv, Unused
<1>7. \A i \in Sockets : Quiet(i)' <=> Quiet(i)
  BY <1>1 DEF Quiet, InCallback
<1>8. got[t] = << >> /\ conn[t] = 0 /\ answer[t] = "none" /\ ~Pending(t)
  BY <1>1 DEF StreamInv, Replies, Connects, Closes
<1>9. ThreadInv(t)'
  <2>1. \A i \in 1 .. Len(uart) : ~ReplyTo(uart[i], t)
    BY <1>8 DEF Pending, ReplyTo
  <2>2. Nothing(t)'
    BY <1>1, <1>3, <1>4, <1>8 DEF Nothing
  <2>3. Quiet(sock[t])'
    BY <1>1, <1>4, <1>6 DEF Quiet, InCallback
  <2>4. Fresh(t)'
    BY <1>1, <1>3, <1>4, <1>8, <2>1, <2>2, <2>3 DEF Fresh
  <2> QED  BY <1>1, <1>4, <1>8, <2>4 DEF ThreadInv, Connects
<1>10. ASSUME NEW u \in Tasks, u # t, pc'[u] # "idle" PROVE ThreadInv(u)'
  <2>1. pc[u] # "idle" /\ ThreadInv(u)
    BY <1>4, <1>10 DEF StreamInv
  <2> QED  BY <1>1, <1>2, <1>4, <1>5, <1>10, <2>1, OtherThread
<1>11. ASSUME NEW u \in Tasks, pc'[u] = "idle" PROVE got'[u] = << >> /\ conn'[u] = 0
  BY <1>1, <1>4, <1>11 DEF StreamInv
<1>12. ASSUME NEW i \in Sockets PROVE SlotInv(i)'
  <2>1. Unused(i)' => i # s /\ Unused(i)
    BY <1>4, <1>5 DEF Unused
  <2> QED  BY <1>2, <1>7, <2>1 DEF SlotInv, StreamInv
<1>13. StreamTypes'
  <2>1. << >> \in Seq(Seq(Nat \X Nat))
    OBVIOUS
  <2>2. recvpkt_list' \in [Sockets -> Seq(Seq(Nat \X Nat))]
    BY <1>1, <2>1 DEF StreamInv, StreamTypes
  <2>3. type' \in [Sockets -> {"INVALID", "TCP", "UDP"}]
    BY <1>1, SwitchAssumption DEF StreamInv, StreamTypes
  <2> QED  BY <1>1, <2>2, <2>3 DEF StreamInv, StreamTypes
<1>14. NoData'
  BY <1>1, <1>2, <1>3 DEF StreamInv, NoData
<1>15. Replies'
  <2>1. \A u \in Tasks : pc'[u] \notin Connects \cup Closes => pc[u] \notin Connects \cup Closes
    BY <1>1, <1>4 DEF Connects, Closes
  <2> QED  BY <1>1, <2>1 DEF StreamInv, Replies, Pending
<1> QED  BY <1>4, <1>9, <1>10, <1>11, <1>12, <1>13, <1>14, <1>15 DEF StreamInv

\* Every step of a thread keeps the invariant.
LEMMA ThreadStream ==
  ASSUME SocketInv, StreamInv, NEW t \in Tasks, Call(t) \/ Continue(t)
  PROVE  StreamInv'
<1> USE DEF socks, parser, modem, stream, misc
<1>1. {"open", "delay"} \cup Checks
        \subseteq Places \ ({"idle", "get"} \cup Connects \cup Closes)
  BY DEF Places, Checks, Connects, Closes
<1>2. {"open", "recv"} \cup Waits \cup Checks
        \subseteq Places \ ({"idle"} \cup Connects \cup Closes)
  BY DEF Places, Waits, Checks, Connects, Closes
<1>3. CASE at_closesocket(t)
  BY <1>1, <1>2, <1>3, PlainMove DEF at_closesocket, Goto
<1>4. CASE RecvTimeout(t)
  <2>1. pc[t] \in Waits
    BY <1>4 DEF RecvTimeout, Waits
  <2> QED  BY <1>1, <1>2, <1>4, <2>1, PlainMove DEF RecvTimeout, Goto
<1>5. CASE RecvNotice(t)
  <2>1. pc[t] \in Waits /\ Check[pc[t]] \in Checks
    BY <1>5 DEF RecvNotice, Waits, Check, Checks
  <2> QED  BY <1>1, <1>2, <1>5, <2>1, PlainMove DEF RecvNotice, Goto
<1>6. CASE CloseAfterDelay(t)
  <2>1. CASE state[sock[t]] = "CONNECT"
    BY <1>6, <2>1, AskClose DEF CloseAfterDelay, Goto, Closes
  <2>2. CASE state[sock[t]] # "CONNECT"
    <3>1. free_socket(t) /\ pc[t] = "delay"
      BY <1>6, <2>2, Zenon DEF CloseAfterDelay
    <3> QED  BY <2>2, <3>1, FreeKeepsStream
  <2> QED  BY <2>1, <2>2
<1>7. CASE at_shutdown(t)
  <2>1. CASE state[sock[t]] = "CONNECT"
    BY <1>7, <2>1, AskClose DEF at_shutdown, Goto, Closes
  <2>2. CASE state[sock[t]] # "CONNECT"
    <3>1. free_socket(t) /\ pc[t] = "open"
      BY <1>7, <2>2, Zenon DEF at_shutdown
    <3> QED  BY <2>2, <3>1, FreeKeepsStream
  <2> QED  BY <2>1, <2>2
<1>8. CASE CloseDone(t)
  BY <1>8, FreeKeepsStream DEF CloseDone, Closes
<1> QED
  BY <1>3, <1>4, <1>5, <1>6, <1>7, <1>8, SocketStream, AskConnect, ConnectAnswered, RecvKeeps
  DEF Call, Continue

-----------------------------------------------------------------------------
(* The modem *)

\* What an entry at the end of the UART changes.
LEMMA Written ==
  ASSUME NEW u \in Seq(Report \cup Reply), NEW e \in Report \cup Reply, NEW v, v = Append(u, e)
  PROVE  /\ v \in Seq(Report \cup Reply) /\ Len(u) \in Nat /\ Len(v) = Len(u) + 1
         /\ v[Len(u) + 1] = e /\ \A i \in 1 .. Len(u) : v[i] = u[i]
         /\ \A i \in 1 .. Len(v) : i \in 1 .. Len(u) \/ i = Len(u) + 1
         /\ \A i \in 1 .. Len(u) : i \in 1 .. Len(v) /\ i < Len(u) + 1 /\ ~(Len(u) + 1 < i)
OBVIOUS

\* An entry about another socket brings no report about s.
LEMMA WrittenAfter ==
  ASSUME NEW u \in Seq(Report \cup Reply), NEW e \in Report \cup Reply, NEW v, v = Append(u, e),
         NEW s, NEW k, ~About(e, s), NoneAfter(u, s, k)
  PROVE  NoneAfter(v, s, k)
BY Written DEF NoneAfter

\* An entry that is no report about the socket of u, and no answer to u.
LEMMA ElseWritten ==
  ASSUME SocketInv, NEW u \in Tasks, ThreadInv(u), NEW e \in Report \cup Reply, Write(e),
         ~About(e, sock[u]), ~ReplyTo(e, u), UNCHANGED <<ppc, urc, cb>>,
         pc'[u] = pc[u], sock'[u] = sock[u], answer'[u] = answer[u], got'[u] = got[u],
         conn'[u] = conn[u], state'[sock[u]] = state[sock[u]], type'[sock[u]] = type[sock[u]],
         recvpkt_list'[sock[u]] = recvpkt_list[sock[u]], link'[sock[u]] = link[sock[u]],
         sent'[sock[u]] = sent[sock[u]]
  PROVE  ThreadInv(u)'
<1>1. uart \in Seq(Report \cup Reply) /\ uart' = Append(uart, e)
  BY DEF SocketInv, SocketTypes, Write
<1>2. /\ Len(uart) \in Nat /\ Len(uart') = Len(uart) + 1
      /\ uart'[Len(uart) + 1] = e /\ \A i \in 1 .. Len(uart) : uart'[i] = uart[i]
      /\ \A i \in 1 .. Len(uart') : i \in 1 .. Len(uart) \/ i = Len(uart) + 1
      /\ \A i \in 1 .. Len(uart) : i \in 1 .. Len(uart') /\ i < Len(uart) + 1
  BY <1>1, Written
<1>3. \A k : NoneAfter(uart, sock[u], k) => NoneAfter(uart', sock[u], k)
  BY <1>1, WrittenAfter
<1>4. /\ Nothing(u)' <=> Nothing(u)
      /\ InCallback(sock[u])' <=> InCallback(sock[u])
      /\ Quiet(sock[u]) => Quiet(sock[u])'
  BY <1>3 DEF Nothing, Quiet, InCallback
<1>5. Fresh(u) => Fresh(u)'
  BY <1>2, <1>4 DEF Fresh
<1>6. Connecting(u) => Connecting(u)'
  <2> SUFFICES ASSUME Connecting(u) PROVE Connecting(u)'
    OBVIOUS
  <2>1. CASE answer[u] = "ok"
    BY <1>4, <2>1 DEF Connecting
  <2>2. CASE answer[u] # "ok"
    <3>1. PICK k \in 1 .. Len(uart) :
            /\ ReplyTo(uart[k], u) /\ uart[k].what = "ok"
            /\ \A i \in 1 .. Len(uart) : About(uart[i], sock[u]) => i > k
      BY <2>2 DEF Connecting
    <3>2. k \in 1 .. Len(uart') /\ ReplyTo(uart'[k], u) /\ uart'[k].what = "ok"
      BY <1>2, <3>1
    <3>3. \A i \in 1 .. Len(uart') : About(uart'[i], sock[u]) => i > k
      BY <1>2, <3>1
    <3> QED  BY <1>4, <3>2, <3>3 DEF Connecting
  <2> QED  BY <2>1, <2>2
<1>7. ClosedLast(sock[u]) => ClosedLast(sock[u])'
  BY <1>2, <1>3 DEF ClosedLast
<1>8. CloseLast(u) => CloseLast(u)'
  BY <1>2, <1>3, <1>4 DEF CloseLast
<1>9. ASSUME NEW h \in 0 .. MaxData, Kept(u, h),
             Pipe(uart, sock[u], conn[u], h, sent[sock[u]])
      PROVE  Kept(u, h)' /\ Pipe(uart', sock[u], conn[u], h, sent[sock[u]])
  <2>1. Kept(u, h)'
    BY <1>9 DEF Kept
  <2>2. ~Data(e, sock[u])
    BY DEF About, Data
  <2>3. sent[sock[u]] \in 0 .. MaxData
    BY <1>1, <1>9, PipeEnds
  <2>4. Pipe(uart', sock[u], conn[u], h, sent[sock[u]])
    BY <1>1, <1>9, <2>2, <2>3, PipeAppend
  <2> QED  BY <2>1, <2>4
<1>10. Carried(u) => Carried(u)'
  BY <1>4, <1>6, <1>7, <1>8, <1>9 DEF Carried
<1> QED  BY <1>5, <1>10 DEF ThreadInv

\* The modem writes an answer to thread t, or a report about its socket.
LEMMA WriteStep ==
  ASSUME SocketInv, StreamInv, NEW e \in Report \cup Reply, Write(e), StreamTypes',
         UNCHANGED <<type, state, recvpkt_list, cb, pc, sock, answer, got, ppc, urc>>,
         NEW t \in Tasks, pc[t] # "idle",
         \/ e.kind = "answer" /\ e.of = t /\ Asked(t) /\ pc[t] \in Connects \cup Closes
         \/ e.kind # "answer" /\ e.of = sock[t],
         \A s \in Sockets : s # sock[t] => link'[s] = link[s] /\ sent'[s] = sent[s],
         \A u \in Tasks : u # t => conn'[u] = conn[u],
         ThreadInv(t)'
  PROVE  StreamInv'
<1>1. uart \in Seq(Report \cup Reply) /\ uart' = Append(uart, e)
  BY DEF SocketInv, SocketTypes, Write
<1>2. /\ Len(uart) \in Nat /\ Len(uart') = Len(uart) + 1
      /\ uart'[Len(uart) + 1] = e /\ \A i \in 1 .. Len(uart) : uart'[i] = uart[i]
      /\ \A i \in 1 .. Len(uart') : i \in 1 .. Len(uart) \/ i = Len(uart) + 1
  BY <1>1, Written
<1>3. ASSUME NEW u \in Tasks, u # t, pc[u] # "idle" PROVE ThreadInv(u)'
  <2>1. sock[u] # sock[t] /\ sock[u] \in Sockets /\ ThreadInv(u)
    BY <1>3 DEF SocketInv, Owned, StreamInv
  <2>2. ~About(e, sock[u]) /\ ~ReplyTo(e, u)
    BY <1>3, <2>1 DEF About, ReplyTo
  <2> QED  BY <1>3, <2>1, <2>2, ElseWritten
<1>4. ASSUME NEW s \in Sockets PROVE SlotInv(s)'
  <2> SUFFICES ASSUME Unused(s) PROVE Quiet(s)' /\ recvpkt_list[s] = << >>
    BY DEF SlotInv, Unused
  <2>1. s # sock[t] /\ Quiet(s) /\ recvpkt_list[s] = << >>
    BY DEF Unused, StreamInv, SlotInv
  <2>2. ~About(e, s)
    BY <2>1 DEF About
  <2>3. NoneAfter(uart', s, 0)
    BY <1>1, <2>1, <2>2, WrittenAfter DEF Quiet
  <2> QED  BY <2>1, <2>3 DEF Quiet, InCallback
<1>5. Replies'
  <2> SUFFICES ASSUME NEW u \in Tasks
               PROVE  /\ pc[u] \notin Connects \cup Closes => answer[u] = "none" /\ ~Pending(u)'
                      /\ answer[u] # "none" => ~Pending(u)'
                      /\ \A i, j \in 1 .. Len(uart') :
                           ReplyTo(uart'[i], u) /\ ReplyTo(uart'[j], u) => i = j
    BY DEF Replies
  <2>1. /\ Pending(u) <=> \E i \in 1 .. Len(uart) : ReplyTo(uart[i], u)
        /\ Pending(u)' <=> \E i \in 1 .. Len(uart') : ReplyTo(uart'[i], u)
    BY DEF Pending, ReplyTo
  <2>2. /\ pc[u] \notin Connects \cup Closes => answer[u] = "none" /\ ~Pending(u)
        /\ answer[u] # "none" => ~Pending(u)
        /\ \A i, j \in 1 .. Len(uart) : ReplyTo(uart[i], u) /\ ReplyTo(uart[j], u) => i = j
    BY DEF StreamInv, Replies
  <2>3. CASE ~ReplyTo(e, u)
    BY <1>2, <2>1, <2>2, <2>3
  <2>4. CASE ReplyTo(e, u)
    <3>1. answer[u] = "none" /\ ~Pending(u) /\ pc[u] \in Connects \cup Closes
      BY <2>4 DEF ReplyTo, Asked
    <3> QED  BY <1>2, <2>1, <3>1
  <2> QED  BY <2>3, <2>4
<1>6. NoData'
  BY DEF StreamInv, NoData
<1>7. \A u \in Tasks : pc[u] = "idle" => got'[u] = << >> /\ conn'[u] = 0
  BY DEF StreamInv
<1> QED  BY <1>3, <1>4, <1>5, <1>6, <1>7 DEF StreamInv

\* The modem answers a connect: nothing about the socket was on its way.
LEMMA ConnectStream ==
  ASSUME SocketInv, StreamInv, NEW t \in Tasks, NEW ok \in BOOLEAN, DevConnect(t, ok)
  PROVE  StreamInv'
<1>1. PICK e \in Report \cup Reply :
        /\ e = [kind |-> "answer", of |-> t, what |-> IF ok THEN "ok" ELSE "error"]
        /\ Write(e)
  BY DEF DevConnect, Reply
<1>2. e.kind = "answer" /\ e.of = t /\ e.what = IF ok THEN "ok" ELSE "error"
  BY <1>1
<1>3. /\ pc[t] \in Connects /\ Asked(t)
      /\ UNCHANGED <<type, state, recvpkt_list, cb, pc, sock, answer, want, got, ppc, urc>>
  BY DEF DevConnect, Connects, socks, parser, misc
<1>4. pc[t] # "idle" /\ sock[t] \in Sockets /\ ThreadInv(t) /\ state[sock[t]] = "NONE"
  BY <1>3 DEF SocketInv, Owned, StreamInv, ThreadInv, Connects
<1>5. answer[t] = "none" /\ \A i \in 1 .. Len(uart) : ~ReplyTo(uart[i], t)
  BY <1>3 DEF Asked, Pending, ReplyTo
<1>6. conn[t] = 0 /\ Fresh(t)
  BY <1>4, <1>5 DEF ThreadInv, Carried, Connecting
<1>7. uart \in Seq(Report \cup Reply) /\ uart' = Append(uart, e)
  BY <1>1 DEF SocketInv, SocketTypes, Write
<1>8. /\ Len(uart) \in Nat /\ Len(uart') = Len(uart) + 1 /\ uart' \in Seq(Report \cup Reply)
      /\ uart'[Len(uart) + 1] = e /\ \A i \in 1 .. Len(uart) : uart'[i] = uart[i]
      /\ \A i \in 1 .. Len(uart') : i \in 1 .. Len(uart) \/ i = Len(uart) + 1
  BY <1>7, Written
<1>9. ~About(e, sock[t]) /\ ReplyTo(e, t) /\ NoneAfter(uart, sock[t], 0)
  BY <1>2, <1>6 DEF About, ReplyTo, Fresh, Quiet
<1>10. NoneAfter(uart', sock[t], 0) /\ Nothing(t)' /\ ~InCallback(sock[t])'
  BY <1>3, <1>6, <1>7, <1>9, WrittenAfter DEF Fresh, Quiet, InCallback, Nothing
<1>11. CASE ~ok
  <2>1. UNCHANGED <<nconn, link, sent, conn>>
    BY <1>11 DEF DevConnect
  <2>2. Fresh(t)'
    BY <1>2, <1>3, <1>5, <1>6, <1>8, <1>10, <1>11, <2>1 DEF Fresh, Quiet
  <2>3. ThreadInv(t)'
    BY <1>3, <1>4, <1>6, <2>1, <2>2 DEF ThreadInv
  <2>4. StreamTypes'
    BY <1>3, <2>1 DEF StreamInv, StreamTypes
  <2> QED  BY <1>1, <1>2, <1>3, <1>4, <2>1, <2>3, <2>4, WriteStep
<1>12. CASE ok
  <2>1. /\ nconn < MaxConn /\ nconn' = nconn + 1
        /\ link' = [link EXCEPT ![sock[t]] = nconn + 1]
        /\ sent' = [sent EXCEPT ![sock[t]] = 0]
        /\ conn' = [conn EXCEPT ![t] = nconn + 1]
    BY <1>12 DEF DevConnect
  <2>2. /\ nconn + 1 \in 1 .. MaxConn /\ nconn + 1 # 0 /\ 0 \in 0 .. MaxData
    BY <2>1, BoundAssumption DEF StreamInv, StreamTypes
  <2>3. /\ link'[sock[t]] = nconn + 1 /\ sent'[sock[t]] = 0 /\ conn'[t] = nconn + 1
        /\ \A s \in Sockets : s # sock[t] => link'[s] = link[s] /\ sent'[s] = sent[s]
        /\ \A u \in Tasks : u # t => conn'[u] = conn[u]
    BY <1>4, <2>1 DEF StreamInv, StreamTypes
  <2>4. Pipe(uart', sock[t], conn'[t], 0, 0)
    BY <1>8, <1>10, <2>2, PipeZero
  <2>5. Kept(t, 0)'
    <3>1. got'[t] = << >> /\ recvpkt_list'[sock[t]] = << >> /\ Len(<< >>) = 0
      BY <1>3, <1>10 DEF Nothing
    <3>2. Chain(recvpkt_list'[sock[t]], conn'[t], 0 + Len(got'[t]), 0)
      BY <2>2, <3>1, ChainEmpty
    <3>3. ~(ppc' = "recv" /\ urc'.of = sock[t])
      BY <1>3, <1>10 DEF InCallback
    <3> QED  BY <1>3, <2>2, <3>1, <3>2, <3>3 DEF Kept
  <2>6. Connecting(t)'
    <3>1. \A i \in 1 .. Len(uart') : ~About(uart'[i], sock[t])
      BY <1>8, <1>10 DEF NoneAfter
    <3>2. Len(uart) + 1 \in 1 .. Len(uart')
      BY <1>8
    <3>3. ReplyTo(uart'[Len(uart) + 1], t) /\ uart'[Len(uart) + 1].what = "ok"
      BY <1>2, <1>8, <1>9, <1>12
    <3> QED  BY <1>3, <1>10, <3>1, <3>2, <3>3 DEF Connecting
  <2>7. ClosedLast(sock[t])'
    <3>1. \A i \in 1 .. Len(uart') : ~About(uart'[i], sock[t])
      BY <1>8, <1>10 DEF NoneAfter
    <3> QED  BY <1>3, <1>10, <3>1 DEF ClosedLast, InCallback
  <2>8. Carried(t)'
    BY <1>3, <1>4, <2>2, <2>3, <2>4, <2>5, <2>6, <2>7 DEF Carried, Connects, Closes
  <2>9. ThreadInv(t)'
    BY <1>3, <1>4, <2>2, <2>3, <2>8 DEF ThreadInv
  <2>10. StreamTypes'
    <3>1. nconn' \in 0 .. MaxConn /\ nconn + 1 \in 0 .. MaxConn
      BY <2>1, <2>2
    <3>2. /\ link' \in [Sockets -> 0 .. MaxConn] /\ sent' \in [Sockets -> 0 .. MaxData]
          /\ conn' \in [Tasks -> 0 .. MaxConn]
      BY <2>1, <2>2, <3>1 DEF StreamInv, StreamTypes
    <3> QED  BY <1>3, <3>1, <3>2 DEF StreamInv, StreamTypes
  <2> QED  BY <1>1, <1>2, <1>3, <1>4, <2>3, <2>9, <2>10, WriteStep
<1> QED  BY <1>11, <1>12

\* The modem answers a close: nothing about the socket comes behind the answer.
LEMMA CloseStream ==
  ASSUME SocketInv, StreamInv, NEW t \in Tasks, DevClose(t)
  PROVE  StreamInv'
<1>1. PICK e \in Report \cup Reply :
        /\ e = [kind |-> "answer", of |-> t, what |-> IF link[sock[t]] = 0 THEN "error" ELSE "ok"]
        /\ Write(e)
  BY DEF DevClose, Reply
<1>2. /\ e.kind = "answer" /\ e.of = t /\ (link[sock[t]] = 0 => e.what # "ok")
      /\ ~About(e, sock[t]) /\ ReplyTo(e, t) /\ ~Data(e, sock[t])
  BY <1>1 DEF About, ReplyTo, Data
<1>3. /\ pc[t] \in Closes /\ Asked(t) /\ link' = [link EXCEPT ![sock[t]] = 0]
      /\ UNCHANGED <<type, state, recvpkt_list, cb, pc, sock, answer, want, got, conn, sent,
                     nconn, ppc, urc>>
  BY DEF DevClose, Closes, socks, parser, stream, misc
<1>4. pc[t] # "idle" /\ sock[t] \in Sockets /\ ThreadInv(t)
  BY <1>3 DEF SocketInv, Owned, StreamInv, Closes
<1>5. answer[t] = "none" /\ \A i \in 1 .. Len(uart) : ~ReplyTo(uart[i], t)
  BY <1>3 DEF Asked, Pending, ReplyTo
<1>6. uart \in Seq(Report \cup Reply) /\ uart' = Append(uart, e)
  BY <1>1 DEF SocketInv, SocketTypes, Write
<1>7. /\ Len(uart) \in Nat /\ Len(uart') = Len(uart) + 1 /\ uart' \in Seq(Report \cup Reply)
      /\ uart'[Len(uart) + 1] = e /\ \A i \in 1 .. Len(uart) : uart'[i] = uart[i]
      /\ \A i \in 1 .. Len(uart') : i \in 1 .. Len(uart) \/ i = Len(uart) + 1
      /\ \A i \in 1 .. Len(uart) : ~(Len(uart) + 1 < i)
  BY <1>6, Written
<1>8. /\ link'[sock[t]] = 0
      /\ \A s \in Sockets : s # sock[t] => link'[s] = link[s]
  BY <1>3, <1>4 DEF StreamInv, StreamTypes
<1>9. \A k : NoneAfter(uart, sock[t], k) => NoneAfter(uart', sock[t], k)
  BY <1>2, <1>6, WrittenAfter
<1>10. /\ Quiet(sock[t]) => Quiet(sock[t])'
       /\ Nothing(t)' <=> Nothing(t)
       /\ ClosedLast(sock[t]) => ClosedLast(sock[t])'
  <2>1. /\ Quiet(sock[t]) => Quiet(sock[t])'
        /\ Nothing(t)' <=> Nothing(t)
    BY <1>3, <1>8, <1>9 DEF Quiet, InCallback, Nothing
  <2>2. ASSUME ClosedLast(sock[t]) PROVE ClosedLast(sock[t])'
    BY <1>2, <1>3, <1>7, <1>8, <1>9, <2>2 DEF ClosedLast
  <2> QED  BY <2>1, <2>2
<1>11. ThreadInv(t)'
  <2>1. CASE conn[t] = 0
    <3>1. Fresh(t)
      BY <1>4, <2>1 DEF ThreadInv
    <3>2. Fresh(t)'
      BY <1>2, <1>3, <1>7, <1>10, <3>1 DEF Fresh, Quiet
    <3> QED  BY <1>3, <1>4, <2>1, <3>2 DEF ThreadInv
  <2>2. CASE conn[t] # 0
    <3>1. Carried(t)
      BY <1>4, <2>2 DEF ThreadInv
    <3>2. state[sock[t]] # "NONE"
      BY <1>3, <3>1 DEF Carried, Connecting, Connects, Closes
    <3>3. CloseLast(t)'
      <4>1. NoneAfter(uart', sock[t], Len(uart) + 1)
        BY <1>7 DEF NoneAfter
      <4> QED  BY <1>3, <1>5, <1>7, <1>8, <4>1 DEF CloseLast
    <3>4. PICK h \in 0 .. MaxData : Pipe(uart, sock[t], conn[t], h, sent[sock[t]]) /\ Kept(t, h)
      BY <3>1 DEF Carried
    <3>5. Kept(t, h)'
      BY <1>3, <3>4 DEF Kept
    <3>6. Pipe(uart', sock[t], conn[t], h, sent[sock[t]])
      <4>1. sent[sock[t]] \in 0 .. MaxData
        BY <1>6, <3>4, PipeEnds
      <4> QED  BY <1>2, <1>6, <3>4, <4>1, PipeAppend
    <3>7. Carried(t)'
      BY <1>3, <1>8, <1>10, <3>1, <3>2, <3>3, <3>4, <3>5, <3>6 DEF Carried
    <3> QED  BY <1>3, <1>4, <2>2, <3>7 DEF ThreadInv
  <2> QED  BY <2>1, <2>2
<1>12. StreamTypes'
  <2>1. 0 \in 0 .. MaxConn
    BY BoundAssumption
  <2> QED  BY <1>3, <2>1 DEF StreamInv, StreamTypes
<1> QED  BY <1>1, <1>2, <1>3, <1>4, <1>8, <1>11, <1>12, WriteStep

\* A connection belongs to a thread that has not closed it.
LEMMA LinkOwner ==
  ASSUME SocketInv, StreamInv, NEW s \in Sockets, link[s] # 0
  PROVE  \E t \in Tasks : /\ pc[t] # "idle" /\ sock[t] = s /\ ThreadInv(t)
                          /\ conn[t] # 0 /\ conn[t] = link[s] /\ Carried(t)
                          /\ ~(state[s] = "CLOSED" /\ pc[t] # "close")
                          /\ pc[t] \in Closes =>
                               answer[t] = "none" /\ \A i \in 1 .. Len(uart) : ~ReplyTo(uart[i], t)
<1>1. ~Unused(s)
  BY DEF StreamInv, SlotInv, Quiet
<1>2. PICK t \in Tasks : pc[t] # "idle" /\ sock[t] = s
  BY <1>1 DEF Unused
<1>3. ThreadInv(t)
  BY <1>2 DEF StreamInv
<1>4. conn[t] # 0 /\ Carried(t)
  BY <1>2, <1>3 DEF ThreadInv, Fresh, Quiet
<1>5. conn[t] = link[s] /\ ~(state[s] = "CLOSED" /\ pc[t] # "close")
  BY <1>2, <1>4 DEF Carried, Quiet
<1>6. ASSUME pc[t] \in Closes
      PROVE  answer[t] = "none" /\ \A i \in 1 .. Len(uart) : ~ReplyTo(uart[i], t)
  <2>1. CloseLast(t)
    BY <1>4, <1>6 DEF Carried
  <2> QED  BY <1>2, <2>1 DEF CloseLast, Quiet
<1> QED  BY <1>2, <1>3, <1>4, <1>5, <1>6

\* What a report at the end of the UART leaves true of the thread it is about.
LEMMA ReportWritten ==
  ASSUME SocketInv, StreamInv, NEW t \in Tasks, pc[t] # "idle", link[sock[t]] # 0, ThreadInv(t),
         conn[t] # 0, Carried(t), ~(state[sock[t]] = "CLOSED" /\ pc[t] # "close"),
         pc[t] \in Closes => /\ answer[t] = "none"
                             /\ \A i \in 1 .. Len(uart) : ~ReplyTo(uart[i], t),
         NEW e \in Report \cup Reply, Write(e), e.kind # "answer", e.of = sock[t],
         UNCHANGED <<type, state, recvpkt_list, cb, pc, sock, answer, got, conn, ppc, urc>>,
         link'[sock[t]] \in {0, conn[t]}, e.kind = "closed" => link'[sock[t]] = 0,
         \E h \in 0 .. MaxData :
           Pipe(uart', sock[t], conn[t], h, sent'[sock[t]]) /\ Kept(t, h)
  PROVE  ThreadInv(t)'
<1>1. uart \in Seq(Report \cup Reply) /\ uart' = Append(uart, e)
  BY DEF SocketInv, SocketTypes, Write
<1>2. /\ Len(uart) \in Nat /\ Len(uart') = Len(uart) + 1
      /\ uart'[Len(uart) + 1] = e /\ \A i \in 1 .. Len(uart) : uart'[i] = uart[i]
      /\ \A i \in 1 .. Len(uart') : i \in 1 .. Len(uart) \/ i = Len(uart) + 1
      /\ \A i \in 1 .. Len(uart) : i \in 1 .. Len(uart') /\ ~(Len(uart) + 1 < i) /\ i < Len(uart) + 1
  BY <1>1, Written
<1>3. ~ReplyTo(e, t)
  BY DEF ReplyTo
<1>4. \A i \in 1 .. Len(uart) : ~(About(uart[i], sock[t]) /\ uart[i].kind = "closed")
  BY DEF Carried, ClosedLast
<1>5. ~(ppc = "closed" /\ urc.of = sock[t])
  BY DEF Carried, ClosedLast
<1>6. ClosedLast(sock[t])'
  <2>1. NoneAfter(uart', sock[t], Len(uart) + 1)
    BY <1>2 DEF NoneAfter
  <2> QED  BY <1>2, <1>4, <1>5, <2>1 DEF ClosedLast
<1>7. ASSUME state[sock[t]] = "NONE" PROVE Connecting(t)'
  <2>1. Connecting(t)
    BY <1>7 DEF Carried
  <2>2. Nothing(t)' /\ ~InCallback(sock[t])' /\ pc'[t] \in Connects
    BY <2>1 DEF Connecting, Nothing, InCallback
  <2>3. CASE answer[t] = "ok"
    BY <2>2, <2>3 DEF Connecting
  <2>4. CASE answer[t] # "ok"
    <3>1. PICK k \in 1 .. Len(uart) :
            /\ ReplyTo(uart[k], t) /\ uart[k].what = "ok"
            /\ \A i \in 1 .. Len(uart) : About(uart[i], sock[t]) => i > k
      BY <2>1, <2>4 DEF Connecting
    <3>2. k \in 1 .. Len(uart') /\ ReplyTo(uart'[k], t) /\ uart'[k].what = "ok"
      BY <1>2, <3>1
    <3>3. Len(uart) + 1 > k
      BY <1>2
    <3>4. \A i \in 1 .. Len(uart') : About(uart'[i], sock[t]) => i > k
      BY <1>2, <3>1, <3>3
    <3> QED  BY <2>2, <3>2, <3>4 DEF Connecting
  <2> QED  BY <2>3, <2>4
<1>8. ASSUME pc[t] \in Closes PROVE CloseLast(t)'
  BY <1>2, <1>3, <1>8 DEF CloseLast
<1>9. \A h \in 0 .. MaxData : Kept(t, h) => Kept(t, h)'
  BY DEF Kept
<1>10. Carried(t)'
  BY <1>6, <1>7, <1>8, <1>9 DEF Carried
<1> QED  BY <1>10 DEF ThreadInv

\* Data arrives from the peer.
LEMMA SendStream ==
  ASSUME SocketInv, StreamInv, NEW s \in Sockets, RemoteSend(s)
  PROVE  StreamInv'
<1>1. /\ link[s] # 0
      /\ UNCHANGED <<type, state, recvpkt_list, cb, pc, sock, answer, want, got, conn, link,
                     nconn, ppc, urc>>
  BY DEF RemoteSend, socks, parser, stream, misc
<1>2. PICK n, p :
        /\ n \in 1 .. MaxLen
        /\ sent[s] + n <= MaxData
        /\ sent' = [sent EXCEPT ![s] = @ + n]
        /\ p = [i \in 1 .. n |-> <<link[s], sent[s] + i>>]
        /\ Write([kind |-> "recv", of |-> s, what |-> p])
  BY DEF RemoteSend
<1>3. n \in Nat /\ n > 0 /\ link[s] \in Nat /\ sent[s] \in 0 .. MaxData /\ sent[s] \in Nat
  BY <1>2, BoundAssumption DEF StreamInv, StreamTypes
<1>4. p \in Packet /\ Len(p) = n
  <2>1. \A i \in 1 .. n : <<link[s], sent[s] + i>> \in Nat \X Nat
    BY <1>3
  <2>2. p \in [1 .. n -> Nat \X Nat]
    BY <1>2, <2>1
  <2> QED  BY <1>3, <2>2, FunctionIsSeq DEF Packet
<1>5. Piece(p, link[s], sent[s])
  <2>1. \A i \in 1 .. Len(p) : p[i] = <<link[s], sent[s] + i>>
    BY <1>2, <1>4
  <2>2. p # << >>
    <3>1. Len(<< >>) = 0 /\ n # 0
      BY <1>3
    <3> QED  BY <1>4, <3>1
  <2> QED  BY <2>1, <2>2 DEF Piece
<1>6. PICK e : e = [kind |-> "recv", of |-> s, what |-> p]
  OBVIOUS
<1>7. /\ e \in Report \cup Reply /\ e.kind = "recv" /\ e.of = s /\ e.what = p /\ Write(e)
  BY <1>2, <1>4, <1>6 DEF Report, Packet
<1>8. PICK t \in Tasks : /\ pc[t] # "idle" /\ sock[t] = s /\ ThreadInv(t)
                         /\ conn[t] # 0 /\ conn[t] = link[s] /\ Carried(t)
                         /\ ~(state[s] = "CLOSED" /\ pc[t] # "close")
                         /\ pc[t] \in Closes =>
                              answer[t] = "none" /\ \A i \in 1 .. Len(uart) : ~ReplyTo(uart[i], t)
  BY <1>1, LinkOwner
<1>9. PICK h \in 0 .. MaxData : Pipe(uart, s, conn[t], h, sent[s]) /\ Kept(t, h)
  BY <1>8 DEF Carried
<1>10. /\ sent'[s] = sent[s] + n /\ sent'[s] \in 0 .. MaxData
       /\ \A i \in Sockets : i # s => sent'[i] = sent[i]
  <2>1. sent[s] + n \in 0 .. MaxData
    BY <1>2, <1>3, BoundAssumption
  <2> QED  BY <1>2, <2>1 DEF StreamInv, StreamTypes
<1>11. Pipe(uart', s, conn[t], h, sent'[s])
  <2>1. uart \in Seq(Report \cup Reply) /\ uart' = Append(uart, e)
    BY <1>7 DEF SocketInv, SocketTypes, Write
  <2>2. Data(e, s) /\ sent'[s] = sent[s] + Len(e.what) /\ Piece(e.what, conn[t], sent[s])
    BY <1>4, <1>5, <1>7, <1>8, <1>10 DEF Data
  <2> QED  BY <1>7, <1>9, <1>10, <2>1, <2>2, PipeAppend
<1>12. ThreadInv(t)'
  BY <1>1, <1>7, <1>8, <1>9, <1>11, ReportWritten
<1>13. StreamTypes'
  <2>1. sent' \in [Sockets -> 0 .. MaxData]
    BY <1>2, <1>10 DEF StreamInv, StreamTypes
  <2> QED  BY <1>1, <2>1 DEF StreamInv, StreamTypes
<1> QED  BY <1>1, <1>7, <1>8, <1>10, <1>12, <1>13, WriteStep

\* The peer closes the connection.
LEMMA RemoteCloseStream ==
  ASSUME SocketInv, StreamInv, NEW s \in Sockets, RemoteClose(s)
  PROVE  StreamInv'
<1>1. /\ link[s] # 0 /\ link' = [link EXCEPT ![s] = 0]
      /\ UNCHANGED <<type, state, recvpkt_list, cb, pc, sock, answer, want, got, conn, sent,
                     nconn, ppc, urc>>
  BY DEF RemoteClose, socks, parser, stream, misc
<1>2. PICK e : e = [kind |-> "closed", of |-> s, what |-> << >>]
  OBVIOUS
<1>3. e \in Report \cup Reply /\ e.kind = "closed" /\ e.of = s /\ Write(e) /\ ~Data(e, s)
  <2>1. << >> \in Seq(Nat \X Nat)
    OBVIOUS
  <2> QED  BY <1>2, <2>1 DEF RemoteClose, Report, Data
<1>4. PICK t \in Tasks : /\ pc[t] # "idle" /\ sock[t] = s /\ ThreadInv(t)
                         /\ conn[t] # 0 /\ conn[t] = link[s] /\ Carried(t)
                         /\ ~(state[s] = "CLOSED" /\ pc[t] # "close")
                         /\ pc[t] \in Closes =>
                              answer[t] = "none" /\ \A i \in 1 .. Len(uart) : ~ReplyTo(uart[i], t)
  BY <1>1, LinkOwner
<1>5. PICK h \in 0 .. MaxData : Pipe(uart, s, conn[t], h, sent[s]) /\ Kept(t, h)
  BY <1>4 DEF Carried
<1>6. Pipe(uart', s, conn[t], h, sent[s])
  <2>1. uart \in Seq(Report \cup Reply) /\ uart' = Append(uart, e)
    BY <1>3 DEF SocketInv, SocketTypes, Write
  <2>2. sent[s] \in 0 .. MaxData
    BY DEF StreamInv, StreamTypes
  <2> QED  BY <1>3, <1>5, <2>1, <2>2, PipeAppend
<1>7. link'[s] = 0 /\ \A i \in Sockets : i # s => link'[i] = link[i]
  BY <1>1 DEF StreamInv, StreamTypes
<1>8. ThreadInv(t)'
  BY <1>1, <1>3, <1>4, <1>5, <1>6, <1>7, ReportWritten
<1>9. StreamTypes'
  <2>1. 0 \in 0 .. MaxConn
    BY BoundAssumption
  <2> QED  BY <1>1, <2>1 DEF StreamInv, StreamTypes
<1> QED  BY <1>1, <1>3, <1>4, <1>7, <1>8, <1>9, WriteStep

\* Every step of the modem keeps the invariant.
LEMMA ModemStream ==
  ASSUME SocketInv, StreamInv,
         \/ \E t \in Tasks : Answer(t)
         \/ \E s \in Sockets : RemoteSend(s) \/ RemoteClose(s)
  PROVE  StreamInv'
BY ConnectStream, CloseStream, SendStream, RemoteCloseStream DEF Answer

-----------------------------------------------------------------------------
(* The parser *)

\* What is left of the UART when its first entry is taken.
LEMMA Taken ==
  ASSUME NEW u \in Seq(Report \cup Reply), u # << >>, NEW v, v = Tail(u)
  PROVE  /\ v \in Seq(Report \cup Reply) /\ Len(u) \in Nat /\ Len(v) = Len(u) - 1
         /\ 1 \in 1 .. Len(u) /\ Head(u) = u[1] /\ u[1] \in Report \cup Reply
         /\ \A i \in 1 .. Len(v) : v[i] = u[i + 1] /\ i + 1 \in 1 .. Len(u) /\ i + 1 # 1
         /\ \A i \in 1 .. Len(u) : i = 1 \/ (i - 1 \in 1 .. Len(v) /\ v[i - 1] = u[i])
OBVIOUS

\* Places move up by one when the first entry is taken.
LEMMA TakenAfter ==
  ASSUME NEW u \in Seq(Report \cup Reply), u # << >>, NEW v, v = Tail(u), NEW s
  PROVE  /\ NoneAfter(u, s, 0) => NoneAfter(v, s, 0)
         /\ \A k \in 1 .. Len(u) : NoneAfter(u, s, k) => NoneAfter(v, s, k - 1)
<1>1. /\ \A i \in 1 .. Len(v) : v[i] = u[i + 1] /\ i + 1 \in 1 .. Len(u) /\ i + 1 # 1
      /\ Len(u) \in Nat
  BY Taken
<1>2. NoneAfter(u, s, 0) => NoneAfter(v, s, 0)
  <2> SUFFICES ASSUME NoneAfter(u, s, 0), NEW i \in 1 .. Len(v) PROVE ~About(v[i], s)
    BY DEF NoneAfter
  <2>1. i + 1 > 0
    OBVIOUS
  <2> QED  BY <1>1, <2>1 DEF NoneAfter
<1>3. ASSUME NEW k \in 1 .. Len(u), NoneAfter(u, s, k) PROVE NoneAfter(v, s, k - 1)
  <2> SUFFICES ASSUME NEW i \in 1 .. Len(v), i > k - 1 PROVE ~About(v[i], s)
    BY DEF NoneAfter
  <2>1. i + 1 > k
    BY <1>1
  <2> QED  BY <1>1, <1>3, <2>1 DEF NoneAfter
<1> QED  BY <1>2, <1>3

\* The parser takes an entry that is neither an answer to u nor data for it.
LEMMA ElseTaken ==
  ASSUME SocketInv, NEW u \in Tasks, ThreadInv(u), uart # << >>, uart' = Tail(uart),
         ~ReplyTo(uart[1], u), ~About(uart[1], sock[u]), ppc = "idle", ~InCallback(sock[u])',
         UNCHANGED cb, pc'[u] = pc[u], sock'[u] = sock[u], answer'[u] = answer[u],
         got'[u] = got[u], conn'[u] = conn[u], state'[sock[u]] = state[sock[u]],
         type'[sock[u]] = type[sock[u]], recvpkt_list'[sock[u]] = recvpkt_list[sock[u]],
         link'[sock[u]] = link[sock[u]], sent'[sock[u]] = sent[sock[u]]
  PROVE  ThreadInv(u)'
<1>1. uart \in Seq(Report \cup Reply)
  BY DEF SocketInv, SocketTypes
<1>2. /\ Len(uart) \in Nat /\ Len(uart') = Len(uart) - 1
      /\ 1 \in 1 .. Len(uart) /\ Head(uart) = uart[1]
      /\ \A i \in 1 .. Len(uart') : uart'[i] = uart[i + 1] /\ i + 1 \in 1 .. Len(uart) /\ i + 1 # 1
      /\ \A i \in 1 .. Len(uart) : i = 1 \/ (i - 1 \in 1 .. Len(uart') /\ uart'[i - 1] = uart[i])
  BY <1>1, Taken
<1>3. /\ NoneAfter(uart, sock[u], 0) => NoneAfter(uart', sock[u], 0)
      /\ \A k \in 1 .. Len(uart) : NoneAfter(uart, sock[u], k) => NoneAfter(uart', sock[u], k - 1)
  BY <1>1, TakenAfter
<1>4. \A i \in 1 .. Len(uart') : (i + 1) - 1 = i
  BY <1>2
<1>5. /\ Nothing(u)' <=> Nothing(u)
      /\ Quiet(sock[u]) => Quiet(sock[u])'
  BY <1>3 DEF Nothing, Quiet, InCallback
<1>6. Fresh(u) => Fresh(u)'
  BY <1>2, <1>5 DEF Fresh
<1>7. Connecting(u) => Connecting(u)'
  <2> SUFFICES ASSUME Connecting(u) PROVE Connecting(u)'
    OBVIOUS
  <2>1. CASE answer[u] = "ok"
    BY <1>5, <2>1 DEF Connecting
  <2>2. CASE answer[u] # "ok"
    <3>1. PICK k \in 1 .. Len(uart) :
            /\ ReplyTo(uart[k], u) /\ uart[k].what = "ok"
            /\ \A i \in 1 .. Len(uart) : About(uart[i], sock[u]) => i > k
      BY <2>2 DEF Connecting
    <3>2. k - 1 \in 1 .. Len(uart') /\ ReplyTo(uart'[k - 1], u) /\ uart'[k - 1].what = "ok"
      BY <1>2, <3>1
    <3>3. \A i \in 1 .. Len(uart') : i + 1 > k => i > k - 1
      BY <1>2
    <3>4. \A i \in 1 .. Len(uart') : About(uart'[i], sock[u]) => i > k - 1
      BY <1>2, <3>1, <3>3
    <3> QED  BY <1>5, <3>2, <3>4 DEF Connecting
  <2> QED  BY <2>1, <2>2
<1>8. ClosedLast(sock[u]) => ClosedLast(sock[u])'
  <2> SUFFICES ASSUME ClosedLast(sock[u]), NEW i \in 1 .. Len(uart'),
                      About(uart'[i], sock[u]), uart'[i].kind = "closed"
               PROVE  link[sock[u]] = 0 /\ NoneAfter(uart', sock[u], i)
    BY DEF ClosedLast, InCallback
  <2>1. link[sock[u]] = 0 /\ NoneAfter(uart, sock[u], i + 1)
    BY <1>2 DEF ClosedLast
  <2>2. NoneAfter(uart', sock[u], (i + 1) - 1)
    BY <1>2, <1>3, <2>1
  <2> QED  BY <1>4, <2>1, <2>2
<1>9. CloseLast(u) => CloseLast(u)'
  <2> SUFFICES ASSUME CloseLast(u), NEW i \in 1 .. Len(uart'), ReplyTo(uart'[i], u)
               PROVE  link[sock[u]] = 0 /\ NoneAfter(uart', sock[u], i)
    BY <1>5 DEF CloseLast
  <2>1. link[sock[u]] = 0 /\ NoneAfter(uart, sock[u], i + 1)
    BY <1>2 DEF CloseLast
  <2>2. NoneAfter(uart', sock[u], (i + 1) - 1)
    BY <1>2, <1>3, <2>1
  <2> QED  BY <1>4, <2>1, <2>2
<1>10. ASSUME NEW h \in 0 .. MaxData, Kept(u, h),
              Pipe(uart, sock[u], conn[u], h, sent[sock[u]])
       PROVE  Kept(u, h)' /\ Pipe(uart', sock[u], conn[u], h, sent[sock[u]])
  <2>1. Kept(u, h)'
    BY <1>10 DEF Kept, InCallback
  <2>2. ~Data(Head(uart), sock[u])
    BY <1>2 DEF About, Data
  <2> QED  BY <1>1, <1>10, <2>1, <2>2, PipeTail
<1>11. Carried(u) => Carried(u)'
  BY <1>5, <1>7, <1>8, <1>9, <1>10 DEF Carried
<1> QED  BY <1>6, <1>11 DEF ThreadInv

\* An answer reaches the thread that waits for it.
LEMMA AnswerTaken ==
  ASSUME SocketInv, StreamInv, NEW t \in Tasks, pc[t] # "idle", uart # << >>,
         uart' = Tail(uart), ReplyTo(uart[1], t), answer'[t] = uart[1].what,
         answer[t] = "none", ppc = "idle",
         UNCHANGED <<type, state, recvpkt_list, cb, pc, sock, got, conn, link, sent, ppc, urc>>
  PROVE  ThreadInv(t)'
<1>1. uart \in Seq(Report \cup Reply) /\ ThreadInv(t)
  BY DEF SocketInv, SocketTypes, StreamInv
<1>2. /\ Len(uart) \in Nat /\ Len(uart') = Len(uart) - 1
      /\ 1 \in 1 .. Len(uart) /\ Head(uart) = uart[1]
      /\ \A i \in 1 .. Len(uart') : uart'[i] = uart[i + 1] /\ i + 1 \in 1 .. Len(uart) /\ i + 1 # 1
  BY <1>1, Taken
<1>3. /\ NoneAfter(uart, sock[t], 0) => NoneAfter(uart', sock[t], 0)
      /\ \A k \in 1 .. Len(uart) : NoneAfter(uart, sock[t], k) => NoneAfter(uart', sock[t], k - 1)
  BY <1>1, TakenAfter
<1>4. ~About(uart[1], sock[t]) /\ ~Data(uart[1], sock[t])
  BY DEF ReplyTo, About, Data
<1>5. \A i \in 1 .. Len(uart) : ReplyTo(uart[i], t) => i = 1
  BY <1>2 DEF StreamInv, Replies
<1>6. \A i \in 1 .. Len(uart') : ~ReplyTo(uart'[i], t) /\ (i + 1) - 1 = i
  BY <1>2, <1>5
<1>7. /\ Nothing(t)' <=> Nothing(t)
      /\ ~InCallback(sock[t])'
      /\ Quiet(sock[t]) => Quiet(sock[t])'
  BY <1>3 DEF Nothing, Quiet, InCallback
<1>8. CASE conn[t] = 0
  <2>1. Fresh(t)
    BY <1>1, <1>8 DEF ThreadInv
  <2>2. uart[1].what # "ok"
    BY <1>2, <2>1 DEF Fresh
  <2>3. Fresh(t)'
    BY <1>6, <1>7, <2>1, <2>2 DEF Fresh
  <2> QED  BY <1>1, <1>8, <2>3 DEF ThreadInv
<1>9. CASE conn[t] # 0
  <2>1. Carried(t)
    BY <1>1, <1>9 DEF ThreadInv
  <2>2. ASSUME state[sock[t]] = "NONE" PROVE Connecting(t)'
    <3>1. Connecting(t)
      BY <2>1, <2>2 DEF Carried
    <3>2. PICK k \in 1 .. Len(uart) : ReplyTo(uart[k], t) /\ uart[k].what = "ok"
      BY <3>1 DEF Connecting
    <3>3. answer'[t] = "ok"
      BY <1>5, <3>2
    <3> QED  BY <1>7, <3>1, <3>3 DEF Connecting
  <2>3. ClosedLast(sock[t])'
    <3> SUFFICES ASSUME NEW i \in 1 .. Len(uart'),
                        About(uart'[i], sock[t]), uart'[i].kind = "closed"
                 PROVE  link[sock[t]] = 0 /\ NoneAfter(uart', sock[t], i)
      BY DEF ClosedLast, InCallback
    <3>1. link[sock[t]] = 0 /\ NoneAfter(uart, sock[t], i + 1)
      BY <1>2, <2>1 DEF Carried, ClosedLast
    <3>2. NoneAfter(uart', sock[t], (i + 1) - 1)
      BY <1>2, <1>3, <3>1
    <3> QED  BY <1>6, <3>1, <3>2
  <2>4. ASSUME pc[t] \in Closes PROVE CloseLast(t)'
    <3>1. CloseLast(t)
      BY <2>1, <2>4 DEF Carried
    <3>2. link[sock[t]] = 0 /\ NoneAfter(uart, sock[t], 1)
      BY <1>2, <3>1 DEF CloseLast
    <3>3. NoneAfter(uart', sock[t], 1 - 1) /\ 1 - 1 = 0
      BY <1>2, <1>3, <3>2
    <3>4. Quiet(sock[t])'
      BY <1>7, <3>2, <3>3 DEF Quiet
    <3> QED  BY <1>6, <3>4 DEF CloseLast
  <2>5. PICK h \in 0 .. MaxData : Pipe(uart, sock[t], conn[t], h, sent[sock[t]]) /\ Kept(t, h)
    BY <2>1 DEF Carried
  <2>6. Kept(t, h)' /\ Pipe(uart', sock[t], conn[t], h, sent[sock[t]])
    <3>1. Kept(t, h)'
      BY <2>5 DEF Kept
    <3> QED  BY <1>1, <1>2, <1>4, <2>5, <3>1, PipeTail
  <2>7. Carried(t)'
    BY <1>7, <2>1, <2>2, <2>3, <2>4, <2>5, <2>6 DEF Carried
  <2> QED  BY <1>1, <1>9, <2>7 DEF ThreadInv
<1> QED  BY <1>8, <1>9

\* A report is taken; it is about a socket that a thread has, and whose connection
\* that thread knows of.
LEMMA ReportOwner ==
  ASSUME SocketInv, StreamInv, uart # << >>, uart[1].kind # "answer", uart[1] \in Report,
         1 \in 1 .. Len(uart), \A t \in Tasks : answer[t] = "none"
  PROVE  \E t \in Tasks : /\ pc[t] # "idle" /\ sock[t] = uart[1].of /\ ThreadInv(t)
                          /\ conn[t] # 0 /\ Carried(t) /\ state[sock[t]] # "NONE"
                          /\ ~(state[sock[t]] = "CLOSED" /\ pc[t] # "close")
                          /\ magic[sock[t]]
<1>1. uart[1].of \in Sockets /\ About(uart[1], uart[1].of)
  BY DEF Report, About
<1>2. ~Quiet(uart[1].of)
  <2>1. 1 > 0
    OBVIOUS
  <2> QED  BY <1>1, <2>1 DEF Quiet, NoneAfter
<1>3. PICK t \in Tasks : pc[t] # "idle" /\ sock[t] = uart[1].of
  BY <1>1, <1>2 DEF StreamInv, SlotInv, Unused
<1>4. ThreadInv(t) /\ magic[sock[t]]
  BY <1>3 DEF StreamInv, SocketInv, Owned
<1>5. conn[t] # 0 /\ Carried(t)
  BY <1>2, <1>3, <1>4 DEF ThreadInv, Fresh
<1>6. ~(state[sock[t]] = "CLOSED" /\ pc[t] # "close")
  BY <1>2, <1>3, <1>5 DEF Carried
<1>7. state[sock[t]] # "NONE"
  <2> SUFFICES ASSUME state[sock[t]] = "NONE" PROVE FALSE
    OBVIOUS
  <2>1. Connecting(t)
    BY <1>5 DEF Carried
  <2>2. PICK k \in 1 .. Len(uart) :
          \A i \in 1 .. Len(uart) : About(uart[i], sock[t]) => i > k
    BY <2>1 DEF Connecting
  <2>3. 1 > k
    BY <1>1, <1>3, <2>2
  <2> QED  BY <2>2, <2>3
<1> QED  BY <1>3, <1>4, <1>5, <1>6, <1>7

\* A report goes to the callback, or is dropped because there is none yet.
LEMMA ReportTaken ==
  ASSUME SocketInv, StreamInv, NEW t \in Tasks, pc[t] # "idle", uart # << >>,
         uart' = Tail(uart), uart[1] \in Report, uart[1].of = sock[t],
         ThreadInv(t), conn[t] # 0, Carried(t), state[sock[t]] # "NONE",
         ~(state[sock[t]] = "CLOSED" /\ pc[t] # "close"), answer[t] = "none", ppc = "idle",
         IF cb THEN ppc' = uart[1].kind /\ urc' = uart[1] ELSE UNCHANGED <<ppc, urc>>,
         UNCHANGED <<type, state, recvpkt_list, cb, pc, sock, answer, got, conn, link, sent>>
  PROVE  ThreadInv(t)'
<1>1. uart \in Seq(Report \cup Reply)
  BY DEF SocketInv, SocketTypes
<1>2. /\ Len(uart) \in Nat /\ Len(uart') = Len(uart) - 1
      /\ 1 \in 1 .. Len(uart) /\ Head(uart) = uart[1]
      /\ \A i \in 1 .. Len(uart') : uart'[i] = uart[i + 1] /\ i + 1 \in 1 .. Len(uart) /\ i + 1 # 1
  BY <1>1, Taken
<1>3. \A k \in 1 .. Len(uart) : NoneAfter(uart, sock[t], k) => NoneAfter(uart', sock[t], k - 1)
  BY <1>1, TakenAfter
<1>4. \A i \in 1 .. Len(uart') : (i + 1) - 1 = i
  BY <1>2
<1>5. uart[1].kind \in {"recv", "closed"} /\ About(uart[1], sock[t]) /\ uart[1].what \in Packet
  BY DEF Report, About, Packet
<1>6. ClosedLast(sock[t])'
  <2>1. ASSUME NEW i \in 1 .. Len(uart'), About(uart'[i], sock[t]), uart'[i].kind = "closed"
        PROVE  link[sock[t]] = 0 /\ NoneAfter(uart', sock[t], i)
    <3>1. link[sock[t]] = 0 /\ NoneAfter(uart, sock[t], i + 1)
      BY <1>2, <2>1 DEF Carried, ClosedLast
    <3>2. NoneAfter(uart', sock[t], (i + 1) - 1)
      BY <1>2, <1>3, <3>1
    <3> QED  BY <1>4, <3>1, <3>2
  <2>2. ASSUME ppc' = "closed" PROVE link[sock[t]] = 0 /\ NoneAfter(uart', sock[t], 0)
    <3>1. uart[1].kind = "closed"
      BY <2>2
    <3>2. link[sock[t]] = 0 /\ NoneAfter(uart, sock[t], 1)
      BY <1>2, <1>5, <3>1 DEF Carried, ClosedLast
    <3>3. NoneAfter(uart', sock[t], 1 - 1) /\ 1 - 1 = 0
      BY <1>2, <1>3, <3>2
    <3> QED  BY <3>2, <3>3
  <2> QED  BY <2>1, <2>2 DEF ClosedLast
<1>7. ASSUME pc[t] \in Closes PROVE CloseLast(t)'
  <2> SUFFICES ASSUME NEW i \in 1 .. Len(uart'), ReplyTo(uart'[i], t)
               PROVE  link[sock[t]] = 0 /\ NoneAfter(uart', sock[t], i)
    BY DEF CloseLast
  <2>1. link[sock[t]] = 0 /\ NoneAfter(uart, sock[t], i + 1)
    BY <1>2, <1>7 DEF Carried, CloseLast
  <2>2. NoneAfter(uart', sock[t], (i + 1) - 1)
    BY <1>2, <1>3, <2>1
  <2> QED  BY <1>4, <2>1, <2>2
<1>8. PICK h \in 0 .. MaxData : Pipe(uart, sock[t], conn[t], h, sent[sock[t]]) /\ Kept(t, h)
  BY DEF Carried
<1>9. PICK o \in 0 .. MaxData :
        /\ type[sock[t]] = "TCP" => o = 0
        /\ \A i \in 1 .. Len(got[t]) : got[t][i] = <<conn[t], o + i>>
        /\ Chain(recvpkt_list[sock[t]], conn[t], o + Len(got[t]), h)
  BY <1>8 DEF Kept
<1>10. \E g \in 0 .. MaxData : Pipe(uart', sock[t], conn[t], g, sent[sock[t]]) /\ Kept(t, g)'
  <2>1. CASE uart[1].kind = "closed"
    <3>1. ~Data(uart[1], sock[t])
      BY <2>1 DEF Data
    <3>2. Pipe(uart', sock[t], conn[t], h, sent[sock[t]])
      BY <1>1, <1>2, <1>8, <3>1, PipeTail
    <3>3. ~(ppc' = "recv" /\ urc'.of = sock[t])
      BY <2>1
    <3>4. Kept(t, h)'
      BY <1>8, <1>9, <3>3 DEF Kept
    <3> QED  BY <3>2, <3>4
  <2>2. CASE uart[1].kind = "recv"
    <3>1. Data(uart[1], sock[t])
      BY <2>2 DEF Data
    <3>2. PICK g \in 0 .. MaxData :
            /\ g = h + Len(uart[1].what) /\ Piece(uart[1].what, conn[t], h)
            /\ Pipe(uart', sock[t], conn[t], g, sent[sock[t]])
      BY <1>1, <1>2, <1>8, <3>1, PipeTail
    <3>3. CASE cb
      <4>1. ppc' = "recv" /\ urc' = uart[1] /\ urc'.of = sock[t]
        BY <2>2, <3>3
      <4>2. Kept(t, g)'
        BY <1>8, <1>9, <3>2, <4>1 DEF Kept
      <4> QED  BY <3>2, <4>2
    <3>4. CASE ~cb
      <4>1. got[t] = << >> /\ recvpkt_list[sock[t]] = << >> /\ Len(<< >>) = 0
        BY <3>4 DEF StreamInv, NoData, SocketInv, Owned
      <4>2. type[sock[t]] # "TCP"
        BY <3>4 DEF Carried
      <4>3. g + 0 = g
        OBVIOUS
      <4>4. Chain(recvpkt_list[sock[t]], conn[t], g + Len(got[t]), g)
        BY <4>1, <4>3, ChainEmpty
      <4>5. ~(ppc' = "recv" /\ urc'.of = sock[t])
        BY <3>4
      <4>6. Kept(t, g)'
        BY <4>1, <4>2, <4>4, <4>5 DEF Kept
      <4> QED  BY <3>2, <4>6
    <3> QED  BY <3>3, <3>4
  <2> QED  BY <1>5, <2>1, <2>2
<1>11. Carried(t)'
  BY <1>6, <1>7, <1>10 DEF Carried
<1> QED  BY <1>11 DEF ThreadInv

\* The parser takes the next entry.
LEMMA NextStream ==
  ASSUME SocketInv, StreamInv, CallerAbove, ParserNext
  PROVE  StreamInv'
<1>1. /\ uart # << >> /\ uart' = Tail(uart) /\ ppc = "idle"
      /\ UNCHANGED <<magic, type, state, recvpkt_list, cb, pc, sock, want, got, conn, link, sent,
                     nconn>>
  BY DEF ParserNext, socks, stream, misc
<1>2. uart \in Seq(Report \cup Reply)
  BY DEF SocketInv, SocketTypes
<1>3. /\ Len(uart) \in Nat /\ 1 \in 1 .. Len(uart) /\ Head(uart) = uart[1]
      /\ uart[1] \in Report \cup Reply
      /\ \A i \in 1 .. Len(uart') : uart'[i] = uart[i + 1] /\ i + 1 \in 1 .. Len(uart) /\ i + 1 # 1
  BY <1>1, <1>2, Taken
<1>4. \A t \in Tasks : answer[t] = "none"
  BY ThreadsAsleep DEF ParserNext
<1>5. StreamTypes'
  BY <1>1 DEF StreamInv, StreamTypes
<1>6. ASSUME NEW s \in Sockets, ~About(uart[1], s), ~InCallback(s)'
      PROVE  SlotInv(s)'
  <2> SUFFICES ASSUME Unused(s) PROVE Quiet(s)' /\ recvpkt_list[s] = << >>
    BY <1>1 DEF SlotInv, Unused
  <2>1. Quiet(s) /\ recvpkt_list[s] = << >>
    BY DEF StreamInv, SlotInv
  <2>2. NoneAfter(uart', s, 0)
    BY <1>1, <1>2, <2>1, TakenAfter DEF Quiet
  <2> QED  BY <1>1, <1>6, <2>1, <2>2 DEF Quiet
<1>7. \A u \in Tasks : \A i, j \in 1 .. Len(uart') :
        ReplyTo(uart'[i], u) /\ ReplyTo(uart'[j], u) => i = j
  <2> TAKE u \in Tasks
  <2> TAKE i \in 1 .. Len(uart'), j \in 1 .. Len(uart')
  <2> HAVE ReplyTo(uart'[i], u) /\ ReplyTo(uart'[j], u)
  <2>1. i + 1 = j + 1
    BY <1>3 DEF StreamInv, Replies
  <2>2. i \in Int /\ j \in Int
    OBVIOUS
  <2> QED  BY <2>1, <2>2
<1>8. \A u \in Tasks : /\ Pending(u) <=> \E i \in 1 .. Len(uart) : ReplyTo(uart[i], u)
                       /\ Pending(u)' <=> \E i \in 1 .. Len(uart') : ReplyTo(uart'[i], u)
                       /\ Pending(u)' => Pending(u)
  <2>1. \A u \in Tasks : /\ Pending(u) <=> \E i \in 1 .. Len(uart) : ReplyTo(uart[i], u)
                         /\ Pending(u)' <=> \E i \in 1 .. Len(uart') : ReplyTo(uart'[i], u)
    BY DEF Pending, ReplyTo
  <2> QED  BY <1>3, <2>1
<1>9. \A u \in Tasks : pc[u] = "idle" => got'[u] = << >> /\ conn'[u] = 0
  BY <1>1 DEF StreamInv
<1>10. CASE uart[1].kind = "answer"
  <2>1. PICK t \in Tasks : t = uart[1].of
    BY <1>3, <1>10 DEF Report, Reply
  <2>2. ReplyTo(uart[1], t) /\ \A u \in Tasks : u # t => ~ReplyTo(uart[1], u)
    BY <1>10, <2>1 DEF ReplyTo
  <2>3. answer' = [answer EXCEPT ![t] = uart[1].what] /\ UNCHANGED <<ppc, urc>>
    BY <1>3, <1>10, <2>1 DEF ParserNext, Callback, parser
  <2>4. answer'[t] = uart[1].what /\ \A u \in Tasks : u # t => answer'[u] = answer[u]
    BY <2>3 DEF SocketInv, SocketTypes
  <2>5. Pending(t) /\ pc[t] \in Connects \cup Closes /\ pc[t] # "idle"
    <3>1. Pending(t)
      BY <1>3, <1>8, <2>2
    <3>2. pc[t] \in Connects \cup Closes
      BY <3>1 DEF StreamInv, Replies
    <3> QED  BY <3>1, <3>2 DEF Connects, Closes
  <2>6. \A s : ~About(uart[1], s)
    BY <1>10 DEF About
  <2>7. \A s : ~InCallback(s)'
    BY <1>1, <2>3 DEF InCallback
  <2>8. ThreadInv(t)'
    BY <1>1, <1>4, <2>2, <2>3, <2>4, <2>5, AnswerTaken
  <2>9. ASSUME NEW u \in Tasks, u # t, pc[u] # "idle" PROVE ThreadInv(u)'
    <3>1. ThreadInv(u) /\ ~ReplyTo(uart[1], u) /\ ~About(uart[1], sock[u])
          /\ ~InCallback(sock[u])' /\ answer'[u] = answer[u]
      BY <2>2, <2>4, <2>6, <2>7, <2>9 DEF StreamInv
    <3> QED  BY <1>1, <3>1, ElseTaken
  <2>10. ~Pending(t)'
    <3>1. \A i \in 1 .. Len(uart) : ReplyTo(uart[i], t) => i = 1
      BY <1>3, <2>2 DEF StreamInv, Replies
    <3> QED  BY <1>3, <1>8, <3>1
  <2>11. Replies'
    <3> SUFFICES ASSUME NEW u \in Tasks
                 PROVE  /\ pc[u] \notin Connects \cup Closes => answer'[u] = "none" /\ ~Pending(u)'
                        /\ answer'[u] # "none" => ~Pending(u)'
      BY <1>1, <1>7 DEF Replies
    <3>1. CASE u = t
      BY <2>5, <2>10, <3>1
    <3>2. CASE u # t
      BY <1>8, <2>4, <3>2 DEF StreamInv, Replies
    <3> QED  BY <3>1, <3>2
  <2>12. NoData'
    BY <1>1, <2>3 DEF StreamInv, NoData
  <2>13. \A s \in Sockets : SlotInv(s)'
    BY <1>6, <2>6, <2>7
  <2> QED  BY <1>1, <1>5, <1>9, <2>8, <2>9, <2>11, <2>12, <2>13 DEF StreamInv
<1>11. CASE uart[1].kind # "answer"
  <2>1. uart[1] \in Report /\ \A u \in Tasks : ~ReplyTo(uart[1], u)
    BY <1>3, <1>11 DEF Reply, ReplyTo
  <2>2. PICK t \in Tasks : /\ pc[t] # "idle" /\ sock[t] = uart[1].of /\ ThreadInv(t)
                           /\ conn[t] # 0 /\ Carried(t) /\ state[sock[t]] # "NONE"
                           /\ ~(state[sock[t]] = "CLOSED" /\ pc[t] # "close")
                           /\ magic[sock[t]]
    BY <1>1, <1>3, <1>4, <1>11, <2>1, ReportOwner
  <2>3. /\ UNCHANGED answer
        /\ IF cb THEN ppc' = uart[1].kind /\ urc' = uart[1] ELSE UNCHANGED <<ppc, urc>>
    BY <1>3, <1>11, <2>2 DEF ParserNext, Callback, parser
  <2>4. \A s : s # sock[t] => ~About(uart[1], s) /\ ~InCallback(s)'
    BY <1>1, <2>2, <2>3 DEF About, InCallback
  <2>5. ThreadInv(t)'
    BY <1>1, <1>4, <2>1, <2>2, <2>3, ReportTaken
  <2>6. ASSUME NEW u \in Tasks, u # t, pc[u] # "idle" PROVE ThreadInv(u)'
    <3>1. ThreadInv(u) /\ sock[u] # sock[t]
      BY <2>2, <2>6 DEF StreamInv, SocketInv, Owned
    <3>2. ~About(uart[1], sock[u]) /\ ~InCallback(sock[u])' /\ ~ReplyTo(uart[1], u)
      BY <1>1, <2>1, <2>4, <3>1 DEF InCallback
    <3> QED  BY <1>1, <2>3, <3>1, <3>2, ElseTaken
  <2>7. Replies'
    BY <1>1, <1>7, <1>8, <2>3 DEF StreamInv, Replies
  <2>8. NoData'
    BY <1>1, <2>3 DEF StreamInv, NoData
  <2>9. ASSUME NEW s \in Sockets PROVE SlotInv(s)'
    <3>1. CASE s = sock[t]
      BY <1>1, <2>2, <3>1 DEF SlotInv, Unused
    <3>2. CASE s # sock[t]
      BY <1>6, <2>4, <3>2
    <3> QED  BY <3>1, <3>2
  <2> QED  BY <1>1, <1>5, <1>9, <2>5, <2>6, <2>7, <2>8, <2>9 DEF StreamInv
<1> QED  BY <1>10, <1>11

\* The parser goes on with a callback that is not about the socket of u.
LEMMA CallbackElsewhere ==
  ASSUME NEW u \in Tasks, ThreadInv(u), ~InCallback(sock[u]), ~InCallback(sock[u])',
         UNCHANGED <<uart, cb>>, pc'[u] = pc[u], sock'[u] = sock[u], answer'[u] = answer[u],
         got'[u] = got[u], conn'[u] = conn[u], state'[sock[u]] = state[sock[u]],
         type'[sock[u]] = type[sock[u]], recvpkt_list'[sock[u]] = recvpkt_list[sock[u]],
         link'[sock[u]] = link[sock[u]], sent'[sock[u]] = sent[sock[u]]
  PROVE  ThreadInv(u)'
<1>1. /\ Nothing(u)' <=> Nothing(u)
      /\ Quiet(sock[u])' <=> Quiet(sock[u])
  BY DEF Nothing, Quiet
<1>2. Fresh(u) => Fresh(u)'
  BY <1>1 DEF Fresh
<1>3. \A h \in 0 .. MaxData : Kept(u, h) => Kept(u, h)'
  BY DEF Kept, InCallback
<1>4. /\ Connecting(u) => Connecting(u)'
      /\ CloseLast(u) => CloseLast(u)'
  BY <1>1 DEF Connecting, CloseLast
<1>5. ClosedLast(sock[u]) => ClosedLast(sock[u])'
  BY DEF ClosedLast, InCallback
<1>6. Carried(u) => Carried(u)'
  BY <1>1, <1>3, <1>4, <1>5 DEF Carried
<1> QED  BY <1>2, <1>6 DEF ThreadInv

\* at_recv_notice_cb puts the packet behind the others.
LEMMA PutStream ==
  ASSUME SocketInv, StreamInv, at_recv_notice_cb
  PROVE  StreamInv'
<1>1. /\ ppc = "recv" /\ ppc' = "notice"
      /\ recvpkt_list' = [recvpkt_list EXCEPT ![urc.of] = IF magic[urc.of]
                                                          THEN Append(@, urc.what) ELSE @]
      /\ UNCHANGED <<type, state, cb, pc, sock, answer, want, got, conn, link, sent, nconn, uart, urc>>
  BY DEF at_recv_notice_cb, modem, stream
<1>2. urc \in Report /\ urc.of \in Sockets /\ urc.what \in Packet
  BY <1>1 DEF SocketInv, SocketTypes, Report, Packet
<1>3. InCallback(urc.of) /\ \A s : ~InCallback(s)'
  BY <1>1 DEF InCallback
<1>4. PICK t \in Tasks : pc[t] # "idle" /\ sock[t] = urc.of
  BY <1>2, <1>3 DEF StreamInv, SlotInv, Unused, Quiet
<1>5. magic[sock[t]] /\ ThreadInv(t)
  BY <1>4 DEF SocketInv, Owned, StreamInv
<1>6. /\ recvpkt_list'[sock[t]] = Append(recvpkt_list[sock[t]], urc.what)
      /\ \A s \in Sockets : s # sock[t] => recvpkt_list'[s] = recvpkt_list[s]
      /\ recvpkt_list[sock[t]] \in Seq(Packet)
  BY <1>1, <1>2, <1>4, <1>5 DEF StreamInv, StreamTypes, Packet
<1>7. conn[t] # 0 /\ Carried(t)
  BY <1>3, <1>4, <1>5 DEF ThreadInv, Fresh, Quiet
<1>8. state[sock[t]] # "NONE" /\ ~(state[sock[t]] = "CLOSED" /\ pc[t] # "close")
  BY <1>3, <1>4, <1>7 DEF Carried, Connecting, Quiet
<1>9. PICK h \in 0 .. MaxData : Pipe(uart, sock[t], conn[t], h, sent[sock[t]]) /\ Kept(t, h)
  BY <1>7 DEF Carried
<1>10. PICK o \in 0 .. MaxData, m \in 0 .. MaxData :
        /\ type[sock[t]] = "TCP" => o = 0
        /\ \A i \in 1 .. Len(got[t]) : got[t][i] = <<conn[t], o + i>>
        /\ Chain(recvpkt_list[sock[t]], conn[t], o + Len(got[t]), m)
        /\ Piece(urc.what, conn[t], m) /\ h = m + Len(urc.what)
  BY <1>1, <1>4, <1>9 DEF Kept
<1>11. Kept(t, h)'
  <2>1. Chain(recvpkt_list'[sock[t]], conn[t], o + Len(got[t]), h)
    BY <1>2, <1>6, <1>9, <1>10, ChainAppend
  <2> QED  BY <1>1, <1>9, <1>10, <2>1 DEF Kept
<1>12. ClosedLast(sock[t])'
  BY <1>1, <1>7 DEF Carried, ClosedLast
<1>13. ASSUME pc[t] \in Closes PROVE CloseLast(t)'
  <2>1. CloseLast(t) /\ answer[t] = "none"
    BY <1>3, <1>4, <1>7, <1>13 DEF Carried, CloseLast, Quiet
  <2> QED  BY <1>1, <2>1 DEF CloseLast
<1>14. Carried(t)'
  BY <1>1, <1>7, <1>8, <1>9, <1>11, <1>12, <1>13 DEF Carried
<1>15. ThreadInv(t)'
  <2>1. recvpkt_list'[sock[t]] # << >>
    BY <1>2, <1>6
  <2> QED  BY <1>1, <1>5, <1>7, <1>14, <2>1 DEF ThreadInv
<1>16. ASSUME NEW u \in Tasks, u # t, pc[u] # "idle" PROVE ThreadInv(u)'
  <2>1. ThreadInv(u) /\ sock[u] # sock[t] /\ sock[u] \in Sockets
    BY <1>4, <1>16 DEF StreamInv, SocketInv, Owned
  <2>2. ~InCallback(sock[u]) /\ ~InCallback(sock[u])'
    BY <1>1, <1>4, <2>1 DEF InCallback
  <2> QED  BY <1>1, <1>6, <2>1, <2>2, CallbackElsewhere
<1>17. ASSUME NEW s \in Sockets PROVE SlotInv(s)'
  <2> SUFFICES ASSUME Unused(s) PROVE Quiet(s)' /\ recvpkt_list'[s] = << >>
    BY <1>1 DEF SlotInv, Unused
  <2>1. s # sock[t] /\ Quiet(s) /\ recvpkt_list[s] = << >>
    BY <1>4 DEF Unused, StreamInv, SlotInv
  <2> QED  BY <1>1, <1>3, <1>6, <2>1 DEF Quiet
<1>18. StreamTypes'
  <2>1. Append(recvpkt_list[sock[t]], urc.what) \in Seq(Packet)
    BY <1>2, <1>6
  <2>2. recvpkt_list' \in [Sockets -> Seq(Packet)]
    <3>1. recvpkt_list \in [Sockets -> Seq(Packet)]
      BY DEF StreamInv, StreamTypes, Packet
    <3>2. recvpkt_list' = [recvpkt_list EXCEPT ![sock[t]] = Append(recvpkt_list[sock[t]], urc.what)]
      BY <1>1, <1>4, <1>5
    <3> QED  BY <2>1, <3>1, <3>2
  <2> QED  BY <1>1, <2>2 DEF StreamInv, StreamTypes, Packet
<1>19. NoData'
  BY <1>1 DEF StreamInv, NoData
<1>20. Replies'
  BY <1>1 DEF StreamInv, Replies, Pending
<1>21. \A u \in Tasks : pc[u] = "idle" => got'[u] = << >> /\ conn'[u] = 0
  BY <1>1 DEF StreamInv
<1> QED  BY <1>1, <1>15, <1>16, <1>17, <1>18, <1>19, <1>20, <1>21 DEF StreamInv

\* at_closed_notice_cb: the connection is gone and nothing about it on its way.
LEMMA ClosedStream ==
  ASSUME SocketInv, StreamInv, at_closed_notice_cb
  PROVE  StreamInv'
<1>1. /\ ppc = "closed" /\ ppc' = "notice"
      /\ state' = [state EXCEPT ![urc.of] = IF magic[urc.of] THEN "CLOSED" ELSE @]
      /\ UNCHANGED <<type, recvpkt_list, cb, pc, sock, answer, want, got, conn, link, sent, nconn,
                     uart, urc>>
  BY DEF at_closed_notice_cb, modem, stream
<1>2. urc.of \in Sockets
  BY <1>1 DEF SocketInv, SocketTypes, Report
<1>3. InCallback(urc.of) /\ \A s : ~InCallback(s)'
  BY <1>1 DEF InCallback
<1>4. PICK t \in Tasks : pc[t] # "idle" /\ sock[t] = urc.of
  BY <1>2, <1>3 DEF StreamInv, SlotInv, Unused, Quiet
<1>5. magic[sock[t]] /\ ThreadInv(t)
  BY <1>4 DEF SocketInv, Owned, StreamInv
<1>6. /\ state'[sock[t]] = "CLOSED"
      /\ \A s \in Sockets : s # sock[t] => state'[s] = state[s]
  BY <1>1, <1>2, <1>4, <1>5 DEF SocketInv, SocketTypes
<1>7. conn[t] # 0 /\ Carried(t)
  BY <1>3, <1>4, <1>5 DEF ThreadInv, Fresh, Quiet
<1>8. state[sock[t]] # "NONE" /\ pc[t] \notin Connects
  BY <1>3, <1>4, <1>5, <1>7 DEF ThreadInv, Carried, Connecting
<1>9. Quiet(sock[t])'
  <2>1. link[sock[t]] = 0 /\ NoneAfter(uart, sock[t], 0)
    BY <1>1, <1>4, <1>7 DEF Carried, ClosedLast
  <2> QED  BY <1>1, <2>1 DEF Quiet, InCallback
<1>10. \A h \in 0 .. MaxData : Kept(t, h) => Kept(t, h)'
  BY <1>1 DEF Kept
<1>11. ClosedLast(sock[t])'
  BY <1>1, <1>7 DEF Carried, ClosedLast
<1>12. ASSUME pc[t] \in Closes PROVE CloseLast(t)'
  <2>1. CloseLast(t)
    BY <1>7, <1>12 DEF Carried
  <2> QED  BY <1>1, <1>9, <2>1 DEF CloseLast
<1>13. Carried(t)'
  BY <1>1, <1>6, <1>7, <1>8, <1>9, <1>10, <1>11, <1>12 DEF Carried
<1>14. ThreadInv(t)'
  BY <1>1, <1>5, <1>7, <1>8, <1>13 DEF ThreadInv, Connects
<1>15. ASSUME NEW u \in Tasks, u # t, pc[u] # "idle" PROVE ThreadInv(u)'
  <2>1. ThreadInv(u) /\ sock[u] # sock[t] /\ sock[u] \in Sockets
    BY <1>4, <1>15 DEF StreamInv, SocketInv, Owned
  <2>2. ~InCallback(sock[u]) /\ ~InCallback(sock[u])'
    BY <1>1, <1>4, <2>1 DEF InCallback
  <2> QED  BY <1>1, <1>6, <2>1, <2>2, CallbackElsewhere
<1>16. ASSUME NEW s \in Sockets PROVE SlotInv(s)'
  <2> SUFFICES ASSUME Unused(s) PROVE Quiet(s)' /\ recvpkt_list[s] = << >>
    BY <1>1 DEF SlotInv, Unused
  <2>1. Quiet(s) /\ recvpkt_list[s] = << >>
    BY DEF StreamInv, SlotInv
  <2> QED  BY <1>1, <1>3, <2>1 DEF Quiet
<1>17. StreamTypes'
  BY <1>1 DEF StreamInv, StreamTypes
<1>18. NoData' /\ Replies'
  BY <1>1 DEF StreamInv, NoData, Replies, Pending
<1>19. \A u \in Tasks : pc[u] = "idle" => got'[u] = << >> /\ conn'[u] = 0
  BY <1>1 DEF StreamInv
<1> QED  BY <1>1, <1>14, <1>15, <1>16, <1>17, <1>18, <1>19 DEF StreamInv

\* The end of both callbacks touches no byte.
LEMMA ReleaseStream ==
  ASSUME SocketInv, StreamInv, ReleaseNotice
  PROVE  StreamInv'
<1>1. /\ ppc = "notice" /\ ppc' = "idle"
      /\ UNCHANGED <<type, state, recvpkt_list, cb, pc, sock, answer, want, got, conn, link, sent,
                     nconn, uart>>
  BY DEF ReleaseNotice, modem, stream
<1>2. \A s : ~InCallback(s) /\ ~InCallback(s)'
  BY <1>1 DEF InCallback
<1>3. ASSUME NEW u \in Tasks, pc[u] # "idle" PROVE ThreadInv(u)'
  <2>1. ThreadInv(u) /\ ~InCallback(sock[u]) /\ ~InCallback(sock[u])'
    BY <1>1, <1>3 DEF StreamInv, InCallback
  <2> QED  BY <1>1, <2>1, CallbackElsewhere
<1>4. ASSUME NEW s \in Sockets PROVE SlotInv(s)'
  <2>1. SlotInv(s)
    BY DEF StreamInv
  <2> QED  BY <1>1, <1>2, <2>1 DEF SlotInv, Unused, Quiet
<1>5. StreamTypes'
  BY <1>1 DEF StreamInv, StreamTypes
<1>6. NoData' /\ Replies'
  BY <1>1 DEF StreamInv, NoData, Replies, Pending
<1>7. \A u \in Tasks : pc[u] = "idle" => got'[u] = << >> /\ conn'[u] = 0
  BY <1>1 DEF StreamInv
<1> QED  BY <1>1, <1>3, <1>4, <1>5, <1>6, <1>7 DEF StreamInv

-----------------------------------------------------------------------------
(* The invariant holds always *)

\* The invariant holds before the first call.
LEMMA StreamInit == Init => StreamInv
<1> SUFFICES ASSUME Init PROVE StreamInv
  OBVIOUS
<1> USE DEF Init
<1>1. StreamTypes
  <2>1. 0 \in 0 .. MaxLen /\ 0 \in 0 .. MaxData /\ 0 \in 0 .. MaxConn
    BY BoundAssumption
  <2>2. << >> \in Seq(Seq(Nat \X Nat)) /\ << >> \in Seq(Nat \X Nat)
    OBVIOUS
  <2> QED  BY <2>1, <2>2 DEF StreamTypes
<1>2. Len(uart) = 0
  OBVIOUS
<1>3. Replies
  <2>1. 1 .. Len(uart) = {}
    BY <1>2
  <2>2. \A t \in Tasks : pc[t] = "idle" /\ answer[t] = "none"
    OBVIOUS
  <2> QED  BY <2>1, <2>2, Zenon DEF Replies, Pending
<1>4. NoData
  BY DEF NoData
<1>5. \A s \in Sockets : Quiet(s) /\ recvpkt_list[s] = << >>
  BY <1>2 DEF Quiet, InCallback, NoneAfter
<1>6. \A t \in Tasks : pc[t] = "idle" /\ got[t] = << >> /\ conn[t] = 0
  OBVIOUS
<1> QED  BY <1>1, <1>3, <1>4, <1>5, <1>6 DEF StreamInv, SlotInv

\* Every step keeps the invariant.
LEMMA StreamNext ==
  ASSUME CallerAbove, SocketInv, StreamInv, [Next]_vars
  PROVE  StreamInv'
<1>1. CASE Parser
  BY <1>1, NextStream, PutStream, ClosedStream, ReleaseStream DEF Parser
<1>2. CASE \E t \in Tasks : Call(t) \/ Continue(t)
  BY <1>2, ThreadStream
<1>3. CASE \/ \E t \in Tasks : Answer(t)
           \/ \E s \in Sockets : RemoteSend(s) \/ RemoteClose(s)
  BY <1>3, ModemStream
<1>4. CASE UNCHANGED vars
  <2>1. \A t \in Tasks : ThreadInv(t) => ThreadInv(t)'
    BY <1>4, OtherThread DEF vars
  <2>2. \A s \in Sockets : SlotInv(s) => SlotInv(s)'
    BY <1>4 DEF vars, SlotInv, Unused, Quiet, InCallback, NoneAfter
  <2>3. StreamTypes' /\ Replies' /\ NoData'
    BY <1>4 DEF vars, StreamInv, StreamTypes, Replies, NoData, Pending
  <2> QED  BY <1>4, <2>1, <2>2, <2>3 DEF vars, StreamInv
<1> QED  BY <1>1, <1>2, <1>3, <1>4 DEF Next

\* The invariant holds always.
LEMMA StreamAlways ==
  ASSUME CallerAbove
  PROVE  Spec => [](SocketInv /\ StreamInv)
<1>1. Init => SocketInv /\ StreamInv
  BY SocketInit, StreamInit
<1>2. SocketInv /\ StreamInv /\ [Next]_vars => (SocketInv /\ StreamInv)'
  BY SocketNext, StreamNext
<1> QED  BY <1>1, <1>2, PTL DEF Spec

\* What a thread has received are bytes of its connection in a row, all sent.
LEMMA GotInRow ==
  ASSUME SocketInv, StreamInv, NEW t \in Tasks, got[t] # << >>
  PROVE  /\ pc[t] # "idle" /\ conn[t] \in 1 .. MaxConn
         /\ \E o \in 0 .. MaxData :
              /\ type[sock[t]] = "TCP" => o = 0
              /\ o + Len(got[t]) \in 0 .. MaxData
              /\ \A i \in 1 .. Len(got[t]) : got[t][i] = <<conn[t], o + i>>
<1>1. pc[t] # "idle" /\ ThreadInv(t)
  BY DEF StreamInv
<1>2. conn[t] # 0 /\ Carried(t)
  BY <1>1 DEF ThreadInv, Fresh, Nothing
<1>3. conn[t] \in 1 .. MaxConn
  <2>1. conn[t] \in 0 .. MaxConn
    BY DEF StreamInv, StreamTypes
  <2> QED  BY <1>2, <2>1, BoundAssumption
<1>4. PICK h \in 0 .. MaxData : Kept(t, h)
  BY <1>2 DEF Carried
<1>5. PICK o \in 0 .. MaxData, m \in 0 .. MaxData :
        /\ type[sock[t]] = "TCP" => o = 0
        /\ \A i \in 1 .. Len(got[t]) : got[t][i] = <<conn[t], o + i>>
        /\ Chain(recvpkt_list[sock[t]], conn[t], o + Len(got[t]), m)
  BY <1>4 DEF Kept
<1>6. o + Len(got[t]) \in 0 .. MaxData
  <2>1. Len(recvpkt_list[sock[t]]) \in Nat
    <3>1. sock[t] \in Sockets
      BY <1>1 DEF SocketInv, Owned
    <3> QED  BY <3>1 DEF StreamInv, StreamTypes
  <2>2. 1 \in 1 .. Len(recvpkt_list[sock[t]]) + 1
    BY <2>1
  <2> QED  BY <1>5, <2>2 DEF Chain
<1> QED  BY <1>1, <1>3, <1>5, <1>6

\* The packets of a list hold bytes of some connection that were sent.
LEMMA ListBytes ==
  ASSUME SocketInv, StreamInv, NEW s \in Sockets
  PROVE  recvpkt_list[s] \in Seq(Seq(Bytes) \ {<< >>})
<1>1. recvpkt_list[s] \in Seq(Packet)
  BY DEF StreamInv, StreamTypes, Packet
<1>2. CASE recvpkt_list[s] = << >>
  BY <1>2
<1>3. CASE recvpkt_list[s] # << >>
  <2>1. PICK t \in Tasks : pc[t] # "idle" /\ sock[t] = s
    BY <1>3 DEF StreamInv, SlotInv, Unused
  <2>2. conn[t] # 0 /\ Carried(t)
    BY <1>3, <2>1 DEF StreamInv, ThreadInv, Fresh, Nothing
  <2>3. conn[t] \in 1 .. MaxConn
    <3>1. conn[t] \in 0 .. MaxConn
      BY DEF StreamInv, StreamTypes
    <3> QED  BY <2>2, <3>1, BoundAssumption
  <2>4. \E a, b : Chain(recvpkt_list[s], conn[t], a, b)
    BY <2>1, <2>2 DEF Carried, Kept
  <2> QED  BY <1>1, <2>3, <2>4, ChainBytes
<1> QED  BY <1>2, <1>3

-----------------------------------------------------------------------------
(* The callback for received data, and the socket it works on *)

Fault == {"none", "recv", "closed"}

\* Thread t has socket s, and cannot free it before the driver has answered.
Holds(t, s) ==
  pc[t] # "idle" /\ sock[t] = s /\ (state[s] = "CONNECT" \/ pc[t] = "close")

\* While at_recv_notice_cb runs, a thread holds its socket.
DataInv ==
  /\ fault \in Fault
  /\ DataMeetsSocket
  /\ ppc \in {"recv", "closed"} => urc.kind = ppc
  /\ ppc = "notice" /\ urc.kind = "recv" => \E t \in Tasks : Holds(t, urc.of)

\* Data comes only for a socket that a thread holds.
LEMMA DataIsHeld ==
  ASSUME SocketInv, StreamInv, ppc = "recv"
  PROVE  \E t \in Tasks : Holds(t, urc.of)
<1>1. urc.of \in Sockets /\ InCallback(urc.of)
  BY DEF SocketInv, SocketTypes, Report, InCallback
<1>2. PICK t \in Tasks : pc[t] # "idle" /\ sock[t] = urc.of
  BY <1>1 DEF StreamInv, SlotInv, Unused, Quiet
<1>3. ThreadInv(t)
  BY <1>2 DEF StreamInv
<1>4. Carried(t)
  BY <1>1, <1>2, <1>3 DEF ThreadInv, Fresh, Quiet
<1>5. state[sock[t]] \in {"NONE", "CONNECT", "CLOSED"}
  BY <1>1, <1>2 DEF SocketInv, SocketTypes
<1>6. state[sock[t]] # "NONE"
  BY <1>1, <1>2, <1>4 DEF Carried, Connecting
<1>7. state[sock[t]] = "CLOSED" => pc[t] = "close"
  BY <1>1, <1>2, <1>4 DEF Carried, Quiet
<1> QED  BY <1>2, <1>5, <1>6, <1>7 DEF Holds

\* A socket that a thread holds has not been freed.
LEMMA HeldIsUsed ==
  ASSUME SocketInv, NEW t \in Tasks, NEW s, Holds(t, s)
  PROVE  s \in Sockets /\ magic[s]
BY DEF SocketInv, Owned, Holds

\* The thread itself goes on holding its socket while a callback is under way: it
\* frees a connected one only with the driver's answer, which waits for the
\* callback's end.
LEMMA HolderKeeps ==
  ASSUME SocketInv, StreamInv, ppc # "idle", NEW t \in Tasks, Holds(t, sock[t]),
         Call(t) \/ Continue(t)
  PROVE  Holds(t, sock[t])' /\ sock' = sock
<1>1. /\ pc[t] # "idle" /\ sock[t] \in Sockets /\ t \in DOMAIN pc
      /\ state[sock[t]] = "CONNECT" \/ pc[t] = "close"
      /\ answer[t] = "none"
      /\ pc[t] \in Connects => state[sock[t]] = "NONE"
  BY DEF SocketInv, SocketTypes, Owned, AnswerFirst, StreamInv, ThreadInv, Holds
<1>2. ASSUME NEW next, next # "idle", Goto(t, next), sock' = sock,
             state' = state \/ next = "close", pc[t] # "close"
      PROVE  Holds(t, sock[t])' /\ sock' = sock
  <2>1. pc'[t] = next
    BY <1>1, <1>2 DEF Goto
  <2> QED  BY <1>1, <1>2, <2>1 DEF Holds
<1>3. ASSUME NEW len, at_recvpkt_get(t, len) PROVE \E next \in {"open", "get"} : Goto(t, next)
  BY <1>3 DEF at_recvpkt_get
<1>4. ASSUME NEW len, NEW empty \in {"open"} \cup Waits, Get(t, len, empty)
      PROVE  \E next \in {"open", "get"} \cup Waits : Goto(t, next)
  BY <1>3, <1>4 DEF Get
<1>5. CASE at_connect(t) \/ \E next \in {"udpsend", "udprecv"} : UdpConnect(t, next)
  BY <1>1, <1>5 DEF at_connect, UdpConnect
<1>6. CASE ConnectDone(t) \/ UdpConnectDone(t) \/ CloseDone(t)
  BY <1>1, <1>6 DEF ConnectDone, UdpConnectDone, CloseDone
<1>7. CASE \E s \in Sockets : at_socket(t, s)
  BY <1>1, <1>7 DEF at_socket
<1>8. CASE at_recvfrom(t)
  <2>1. \E next \in {"open", "get"} \cup Waits : Goto(t, next)
    BY <1>4, <1>8 DEF at_recvfrom, Waits
  <2> QED  BY <1>2, <1>8, <2>1 DEF at_recvfrom, Waits
<1>9. CASE RecvCheck(t)
  <2>1. Wait[pc[t]] \in Waits
    BY <1>9 DEF RecvCheck, Checks, Wait, Waits
  <2>2. \E next \in {"open", "get"} \cup Waits : Goto(t, next)
    BY <1>4, <1>9, <2>1 DEF RecvCheck
  <2> QED  BY <1>2, <1>9, <2>2 DEF RecvCheck, Checks, Waits
<1>10. CASE GetMore(t)
  BY <1>2, <1>3, <1>10 DEF GetMore
<1>11. CASE RecvNotice(t)
  <2>1. Check[pc[t]] \in Checks /\ pc[t] # "close"
    BY <1>11 DEF RecvNotice, Waits, Check, Checks
  <2> QED  BY <1>2, <1>11, <2>1 DEF RecvNotice, Checks
<1>12. CASE RecvTimeout(t) \/ at_closesocket(t)
  BY <1>2, <1>12 DEF RecvTimeout, at_closesocket, socks
<1>13. CASE CloseAfterDelay(t)
  BY <1>1, <1>2, <1>13 DEF CloseAfterDelay
<1>14. CASE at_shutdown(t)
  BY <1>1, <1>2, <1>14 DEF at_shutdown, socks
<1> QED
  BY <1>5, <1>6, <1>7, <1>8, <1>9, <1>10, <1>11, <1>12, <1>13, <1>14 DEF Call, Continue

\* A thread's step leaves a socket that another thread holds alone.
LEMMA OthersKeep ==
  ASSUME SocketInv, NEW t \in Tasks, NEW u \in Tasks, u # t, Holds(u, sock[u]),
         Call(t) \/ Continue(t)
  PROVE  Holds(u, sock[u])' /\ sock'[u] = sock[u]
<1>1. /\ pc[u] # "idle" /\ sock[u] \in Sockets /\ magic[sock[u]]
      /\ pc[t] # "idle" => sock[t] # sock[u]
      /\ pc \in [Tasks -> Places] /\ sock \in [Tasks -> Sockets \cup {NULL}]
      /\ state \in [Sockets -> {"NONE", "CONNECT", "CLOSED"}]
  BY DEF SocketInv, SocketTypes, Owned, Holds
<1>2. ASSUME NEW next, Goto(t, next), sock'[u] = sock[u],
             state' = state \/ \E s, w : s # sock[u] /\ state' = [state EXCEPT ![s] = w]
      PROVE  Holds(u, sock[u])' /\ sock'[u] = sock[u]
  <2>1. pc'[u] = pc[u] /\ state'[sock[u]] = state[sock[u]]
    BY <1>1, <1>2 DEF Goto
  <2> QED  BY <1>2, <2>1 DEF Holds
<1>3. ASSUME NEW len, at_recvpkt_get(t, len) PROVE \E next : Goto(t, next)
  BY <1>3 DEF at_recvpkt_get
<1>4. ASSUME NEW len, NEW empty, Get(t, len, empty) PROVE \E next : Goto(t, next)
  BY <1>3, <1>4 DEF Get
<1>5. CASE at_connect(t) \/ (\E next \in {"udpsend", "udprecv"} : UdpConnect(t, next))
           \/ RecvTimeout(t) \/ at_closesocket(t) \/ RecvNotice(t)
  BY <1>2, <1>5 DEF at_connect, UdpConnect, RecvTimeout, at_closesocket, RecvNotice, socks
<1>6. CASE ConnectDone(t) \/ UdpConnectDone(t)
  BY <1>1, <1>2, <1>6 DEF ConnectDone, UdpConnectDone
<1>7. ASSUME NEW s \in Sockets, at_socket(t, s) PROVE Holds(u, sock[u])' /\ sock'[u] = sock[u]
  <2>1. s # sock[u] /\ sock'[u] = sock[u]
    BY <1>1, <1>7 DEF at_socket
  <2> QED  BY <1>2, <1>7, <2>1 DEF at_socket
<1>8. CASE at_recvfrom(t) \/ RecvCheck(t) \/ GetMore(t)
  <2>1. \E next : Goto(t, next)
    BY <1>3, <1>4, <1>8 DEF at_recvfrom, RecvCheck, GetMore
  <2> QED  BY <1>2, <1>8, <2>1 DEF at_recvfrom, RecvCheck, GetMore
<1>9. ASSUME pc[t] # "idle", free_socket(t)
      PROVE  Holds(u, sock[u])' /\ sock'[u] = sock[u]
  <2>1. sock'[u] = sock[u]
    BY <1>1, <1>9 DEF free_socket
  <2> QED  BY <1>1, <1>2, <1>9, <2>1 DEF free_socket
<1>10. CASE CloseAfterDelay(t) \/ at_shutdown(t) \/ CloseDone(t)
  <2>1. pc[t] # "idle"
    BY <1>10 DEF CloseAfterDelay, at_shutdown, CloseDone
  <2>2. \/ free_socket(t)
        \/ /\ \E next : Goto(t, next)
           /\ sock' = sock
           /\ state' = state \/ state' = [state EXCEPT ![sock[t]] = "CLOSED"]
    BY <1>10 DEF CloseAfterDelay, at_shutdown, CloseDone, socks
  <2> QED  BY <1>1, <1>2, <1>9, <2>1, <2>2
<1> QED  BY <1>5, <1>6, <1>7, <1>8, <1>10 DEF Call, Continue

\* A thread's step keeps the socket of the callback under way.
LEMMA ThreadData ==
  ASSUME SocketInv, StreamInv, DataInv, NEW t \in Tasks, Call(t) \/ Continue(t)
  PROVE  DataInv'
<1>1. UNCHANGED <<ppc, urc, fault>>
  <2> USE DEF parser, misc
  <2>1. CASE Call(t)
    BY <2>1 DEF Call, at_socket, at_connect, UdpConnect, at_recvfrom, at_closesocket,
                at_shutdown, free_socket
  <2>2. CASE Continue(t)
    BY <2>2 DEF Continue, ConnectDone, UdpConnectDone, at_recvfrom, RecvNotice, RecvTimeout,
                RecvCheck, GetMore, CloseAfterDelay, CloseDone, free_socket
  <2> QED  BY <2>1, <2>2
<1>2. ASSUME ppc = "notice", urc.kind = "recv" PROVE \E u \in Tasks : Holds(u, urc.of)'
  <2>1. PICK u \in Tasks : Holds(u, urc.of)
    BY <1>2 DEF DataInv
  <2>2. sock[u] = urc.of
    BY <2>1 DEF Holds
  <2>3. CASE u = t
    BY <1>1, <1>2, <2>1, <2>2, <2>3, HolderKeeps DEF Holds
  <2>4. CASE u # t
    BY <1>1, <2>1, <2>2, <2>4, OthersKeep DEF Holds
  <2> QED  BY <2>3, <2>4
<1> QED  BY <1>1, <1>2 DEF DataInv, DataMeetsSocket

\* A callback's step with a socket that is in use, or with a report of a close
LEMMA MeetsKeeps ==
  ASSUME SocketInv, DataInv, ppc # "idle", urc.kind = "recv" => magic[urc.of], Meets(urc.of)
  PROVE  fault' \in Fault /\ DataMeetsSocket'
<1>1. urc \in Report /\ urc.of \in Sockets
  BY DEF SocketInv, SocketTypes, Report
<1>2. CASE magic[urc.of]
  BY <1>2 DEF DataInv, DataMeetsSocket, Meets
<1>3. CASE ~magic[urc.of]
  <2>1. urc.kind = "closed"
    BY <1>1, <1>3 DEF Report
  <2>2. fault' = urc.kind
    BY <1>3 DEF Meets
  <2> QED  BY <1>1, <2>1, <2>2 DEF Fault, DataInv, DataMeetsSocket
<1> QED  BY <1>2, <1>3

\* The parser's steps
LEMMA ParserData ==
  ASSUME SocketInv, StreamInv, DataInv, Parser
  PROVE  DataInv'
<1>1. CASE ParserNext
  <2>1. ppc = "idle" /\ fault' = fault
    BY <1>1 DEF ParserNext, Callback, parser, misc, DataInv
  <2>2. \/ ppc' = ppc
        \/ /\ Head(uart).kind # "answer"
           /\ ppc' = Head(uart).kind /\ urc' = Head(uart)
    BY <1>1 DEF ParserNext, Callback, parser
  <2>3. Head(uart) \in Report \cup Reply
    BY <1>1 DEF SocketInv, SocketTypes, ParserNext
  <2>4. ppc' # "notice" /\ (ppc' \in {"recv", "closed"} => urc'.kind = ppc')
    BY <2>1, <2>2, <2>3 DEF Report, Reply
  <2> QED  BY <2>1, <2>4 DEF DataInv, DataMeetsSocket
<1>2. CASE at_recv_notice_cb
  <2>1. /\ ppc = "recv" /\ ppc' = "notice" /\ Meets(urc.of)
        /\ UNCHANGED <<magic, state, pc, sock, urc>>
    BY <1>2 DEF at_recv_notice_cb
  <2>2. PICK t \in Tasks : Holds(t, urc.of)
    BY <2>1, DataIsHeld
  <2>3. magic[urc.of]
    BY <2>2, HeldIsUsed
  <2>4. fault' \in Fault /\ DataMeetsSocket'
    BY <2>1, <2>3, MeetsKeeps
  <2>5. Holds(t, urc.of)'
    BY <2>1, <2>2 DEF Holds
  <2> QED  BY <2>1, <2>4, <2>5 DEF DataInv
<1>3. CASE at_closed_notice_cb
  <2>1. /\ ppc = "closed" /\ ppc' = "notice" /\ Meets(urc.of) /\ urc' = urc
    BY <1>3 DEF at_closed_notice_cb
  <2>2. urc.kind = "closed"
    BY <2>1 DEF DataInv
  <2>3. fault' \in Fault /\ DataMeetsSocket'
    BY <2>1, <2>2, MeetsKeeps
  <2> QED  BY <2>1, <2>2, <2>3 DEF DataInv
<1>4. CASE ReleaseNotice
  <2>1. ppc = "notice" /\ ppc' = "idle" /\ Meets(urc.of)
    BY <1>4 DEF ReleaseNotice
  <2>2. urc.kind = "recv" => magic[urc.of]
    BY <2>1, HeldIsUsed DEF DataInv
  <2>3. fault' \in Fault /\ DataMeetsSocket'
    BY <2>1, <2>2, MeetsKeeps
  <2> QED  BY <2>1, <2>3 DEF DataInv
<1> QED  BY <1>1, <1>2, <1>3, <1>4 DEF Parser

\* Every step keeps the invariant.
LEMMA DataNext ==
  ASSUME SocketInv, StreamInv, DataInv, [Next]_vars
  PROVE  DataInv'
<1>1. CASE \/ \E t \in Tasks : Answer(t)
           \/ \E s \in Sockets : RemoteSend(s) \/ RemoteClose(s)
           \/ UNCHANGED vars
  <2>1. UNCHANGED <<state, pc, sock, ppc, urc, fault>>
    BY <1>1 DEF Answer, DevConnect, DevClose, RemoteSend, RemoteClose, vars, socks, parser, misc
  <2> QED  BY <2>1 DEF DataInv, DataMeetsSocket, Holds
<1> QED  BY <1>1, ThreadData, ParserData DEF Next

\* The invariant holds always.
LEMMA DataAlways ==
  ASSUME CallerAbove
  PROVE  Spec => [](SocketInv /\ StreamInv /\ DataInv)
<1>1. Init => SocketInv /\ StreamInv /\ DataInv
  <2>1. ASSUME Init PROVE DataInv
    <3>1. fault = "none" /\ ppc = "idle"
      BY <2>1 DEF Init
    <3>2. fault \in Fault /\ DataMeetsSocket
      BY <3>1 DEF DataMeetsSocket, Fault
    <3> QED  BY <3>1, <3>2 DEF DataInv
  <2> QED  BY <2>1, SocketInit, StreamInit
<1>2. SocketInv /\ StreamInv /\ DataInv /\ [Next]_vars => (SocketInv /\ StreamInv /\ DataInv)'
  BY SocketNext, StreamNext, DataNext
<1> QED  BY <1>1, <1>2, PTL DEF Spec

-----------------------------------------------------------------------------
\* For any number of threads above the parser and any number of sockets, and for
\* packets and reads of any size: the socket table keeps its types.  In
\* particular no list has an empty packet (at_recvpkt_get deletes a node that is
\* used up), and what is in a list or has been read is a byte that the modem
\* sent on a connection.
THEOREM SocketTypeCorrect ==
  ASSUME CallerAbove
  PROVE  Spec => []TypeOK
<1>1. SocketInv /\ StreamInv /\ DataInv => TypeOK
  <2> SUFFICES ASSUME SocketInv, StreamInv, DataInv PROVE TypeOK
    OBVIOUS
  <2>1. recvpkt_list \in [Sockets -> Seq(Seq(Bytes) \ {<< >>})]
    BY ListBytes DEF StreamInv, StreamTypes
  <2>2. got \in [Tasks -> Seq(Bytes)]
    <3>1. ASSUME NEW t \in Tasks PROVE got[t] \in Seq(Bytes)
      <4>1. CASE got[t] = << >>
        <5>1. << >> \in Seq(Bytes)
          OBVIOUS
        <5> QED  BY <4>1, <5>1
      <4>2. CASE got[t] # << >>
        <5>1. got[t] \in Seq(Nat \X Nat)
          BY DEF StreamInv, StreamTypes
        <5>2. Len(got[t]) \in Nat /\ got[t] = [i \in 1 .. Len(got[t]) |-> got[t][i]]
          BY <5>1
        <5>3. PICK o \in 0 .. MaxData :
                /\ o + Len(got[t]) \in 0 .. MaxData /\ conn[t] \in 1 .. MaxConn
                /\ \A i \in 1 .. Len(got[t]) : got[t][i] = <<conn[t], o + i>>
          BY <4>2, GotInRow
        <5>4. \A i \in 1 .. Len(got[t]) : o + i \in 1 .. MaxData
          BY <5>2, <5>3, BoundAssumption
        <5>5. ASSUME NEW i \in 1 .. Len(got[t]) PROVE got[t][i] \in Bytes
          <6>1. got[t][i] = <<conn[t], o + i>> /\ conn[t] \in 1 .. MaxConn /\ o + i \in 1 .. MaxData
            BY <5>3, <5>4
          <6>2. \A c \in 1 .. MaxConn, n \in 1 .. MaxData : <<c, n>> \in Bytes
            BY DEF Bytes
          <6> QED  BY <6>1, <6>2, Zenon
        <5>6. got[t] \in [1 .. Len(got[t]) -> Bytes]
          BY <5>2, <5>5
        <5> QED  BY <5>2, <5>6, FunctionIsSeq
      <4> QED  BY <4>1, <4>2
    <3> QED  BY <3>1 DEF StreamInv, StreamTypes
  <2>3. fault \in {"none", "recv", "closed"}
    BY DEF DataInv, Fault
  <2> QED
    BY <2>1, <2>2, <2>3 DEF SocketInv, SocketTypes, StreamInv, StreamTypes, TypeOK, Places
<1> QED  BY <1>1, DataAlways, PTL

\* For any number of threads above the parser and any number of sockets, packets
\* of any size and reads of any size: at_recvfrom gives a thread, over TCP, the
\* bytes of its own connection from the first one on and without gaps, and over
\* UDP bytes of its own connection in order, although slots are used again and
\* the parser adds packets between two reads.
THEOREM ReceivesCorrect ==
  ASSUME CallerAbove
  PROVE  Spec => []ReceivesInOrder
<1>1. SocketInv /\ StreamInv => ReceivesInOrder
  <2> SUFFICES ASSUME SocketInv, StreamInv, NEW t \in Tasks, NEW i \in DOMAIN got[t]
               PROVE  /\ got[t][i][1] = conn[t]
                      /\ IF type[sock[t]] = "TCP" THEN got[t][i][2] = i
                         ELSE i > 1 => got[t][i - 1][2] < got[t][i][2]
    BY DEF ReceivesInOrder
  <2>1. got[t] \in Seq(Nat \X Nat)
    BY DEF StreamInv, StreamTypes
  <2>2. Len(got[t]) \in Nat /\ i \in 1 .. Len(got[t]) /\ got[t] # << >>
    BY <2>1
  <2>3. PICK o \in 0 .. MaxData :
          /\ type[sock[t]] = "TCP" => o = 0
          /\ \A j \in 1 .. Len(got[t]) : got[t][j] = <<conn[t], o + j>>
    BY <2>2, GotInRow
  <2>4. got[t][i][1] = conn[t] /\ got[t][i][2] = o + i
    BY <2>2, <2>3
  <2>5. i > 1 => i - 1 \in 1 .. Len(got[t])
    BY <2>2
  <2>6. i > 1 => got[t][i - 1][2] = o + (i - 1)
    BY <2>3, <2>5
  <2> QED  BY <2>2, <2>3, <2>4, <2>6
<1> QED  BY <1>1, StreamAlways, PTL

\* For any number of threads above the parser and any number of sockets:
\* at_recv_notice_cb, which locks the list and not the socket, never works on a
\* socket that at_closesocket or at_shutdown has freed under it.
THEOREM DataCallbackCorrect ==
  ASSUME CallerAbove
  PROVE  Spec => []DataMeetsSocket
BY DataAlways, PTL DEF DataInv
=============================================================================
