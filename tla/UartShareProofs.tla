-------------------------- MODULE UartShareProofs --------------------------
(* Theorems about UartShare: the invariants of its run for a FIFO of any    *)
(* size and reads of any size.                                             *)
EXTENDS UartShare, TLAPS

Reading == {"read", "reset", "take", "blocked"}

\* The modem sends b right behind a.
After(a, b) == \/ a = "LF" /\ b = "head"
               \/ a = "head" /\ b \in {"text", "CR"}
               \/ a = "text" /\ b = "CR"
               \/ a = "CR" /\ b = "LF"

\* The FIFO holds the end of what the modem has sent.
Stream ==
  /\ \A i \in 1 .. Len(queue) - 1 : After(queue[i], queue[i + 1])
  /\ queue # << >> => queue[Len(queue)] = sent

\* What is in the FIFO comes right behind c.
Behind(c) == IF queue = << >> THEN sent = c ELSE After(c, queue[1])

\* Once the parser has ended a line and nothing has been taken from it since, it
\* is in step with the modem.
InStep ==
  lines > 0 =>
    /\ ppc \in {"line", "top", "sleep"} => Behind("LF")
    /\ ppc \in Reading =>
         \/ recv_buffer = "empty" /\ last_ch = "none" /\ Behind("LF")
         \/ recv_buffer = "whole" /\ last_ch \in {"head", "text", "CR"} /\ Behind(last_ch)

\* A parser that is switched off and has begun to take a line is in step with the
\* modem until the end of that line.
Unfinished ==
  AT_COMPonet_Station = 0 /\ taken > 0 /\ ppc \in Reading =>
    last_ch \in {"head", "text", "CR"} /\ Behind(last_ch)

ShareInv == /\ TypeOK /\ OneLineTaken /\ Unfinished /\ Stream
            /\ InStep /\ SecondLineWhole

-----------------------------------------------------------------------------
\* What the first element, the length and the elements of the shorter and longer
\* lists are.
LEMMA TailFacts ==
  ASSUME NEW S, NEW q \in Seq(S), q # << >>
  PROVE  /\ Head(q) = q[1] /\ Head(q) \in S
         /\ Tail(q) \in Seq(S)
         /\ Len(q) \in Nat /\ Len(q) > 0
         /\ Len(Tail(q)) = Len(q) - 1
         /\ \A i \in 1 .. Len(q) - 1 : Tail(q)[i] = q[i + 1]
         /\ Tail(q) # << >> => Len(q) > 1
OBVIOUS

LEMMA AppendFacts ==
  ASSUME NEW S, NEW q \in Seq(S), NEW c \in S
  PROVE  /\ Append(q, c) \in Seq(S)
         /\ Append(q, c) # << >>
         /\ Len(q) \in Nat
         /\ Len(Append(q, c)) = Len(q) + 1
         /\ \A i \in 1 .. Len(q) : Append(q, c)[i] = q[i]
         /\ Append(q, c)[Len(q) + 1] = c
OBVIOUS

LEMMA SuffixFacts ==
  ASSUME NEW S, NEW q \in Seq(S), NEW n \in Nat \ {0}
  PROVE  LET r == SubSeq(q, n + 1, Len(q)) IN
         /\ r \in Seq(S)
         /\ Len(r) = (IF n <= Len(q) THEN Len(q) - n ELSE 0)
         /\ \A i \in 1 .. Len(r) : r[i] = q[i + n]
         /\ r # << >> => Len(r) > 0
OBVIOUS

\* The parser begins with an empty FIFO and no line.
LEMMA ShareInit == Init => ShareInv
BY CapacityAssumption, SemAssumption
   DEF Init, ShareInv, TypeOK, OneLineTaken, Unfinished, Stream, InStep, SecondLineWhole,
       Reading, Char, MaxLines, Behind, After, Device!Init

-----------------------------------------------------------------------------
\* Characters arrive: the FIFO stays the end of the stream, and with no overflow
\* the parser stays in step.
LEMMA ReceiveKeeps ==
  ASSUME ShareInv, NEW c \in Char, Receive(c)
  PROVE  ShareInv'
<1> USE CapacityAssumption, SemAssumption DEF MaxLines
<1> DEFINE kept == IF Len(queue) = Capacity THEN Tail(queue) ELSE queue
<1>1. queue \in Seq(Char) /\ Len(queue) <= Capacity
  BY DEF ShareInv, TypeOK
<1>2. queue' = Append(kept, c) /\ UNCHANGED ch
  BY DEF Receive, Device!Arrive
<1>3. /\ kept \in Seq(Char)
      /\ Len(kept) \in Nat
      /\ Len(kept) < Capacity
      /\ kept # << >> => Len(kept) > 0 /\ kept[Len(kept)] = sent
      /\ \A i \in 1 .. Len(kept) - 1 : After(kept[i], kept[i + 1])
  <2>1. CASE Len(queue) # Capacity
    BY <1>1, <2>1 DEF ShareInv, Stream
  <2>2. CASE Len(queue) = Capacity
    <3>1. queue # << >> /\ kept = Tail(queue)
      BY <1>1, <2>2
    <3>2. \A i \in 1 .. Len(queue) - 1 : After(queue[i], queue[i + 1])
      BY DEF ShareInv, Stream
    <3>3. queue[Len(queue)] = sent
      BY <3>1 DEF ShareInv, Stream
    <3> QED  BY <1>1, <2>2, <3>1, <3>2, <3>3, TailFacts
  <2> QED  BY <2>1, <2>2
<1>4. sent' = c /\ After(sent, c)
  BY DEF Receive, Follows, After
<1> HIDE DEF kept
<1>5. /\ queue' \in Seq(Char)
      /\ queue' # << >>
      /\ Len(queue') = Len(kept) + 1
      /\ \A i \in 1 .. Len(kept) : queue'[i] = kept[i]
      /\ queue'[Len(kept) + 1] = c
  BY <1>2, <1>3, AppendFacts
<1>6. Stream'
  <2>1. ASSUME NEW i \in 1 .. Len(queue') - 1
        PROVE  After(queue'[i], queue'[i + 1])
    <3>1. CASE i < Len(kept)
      BY <1>3, <1>5, <2>1, <3>1
    <3>2. CASE i = Len(kept)
      <4>1. kept # << >> /\ queue'[i] = sent /\ queue'[i + 1] = c
        BY <1>3, <1>5, <2>1, <3>2
      <4> QED  BY <1>4, <4>1
    <3> QED  BY <1>3, <1>5, <2>1, <3>1, <3>2
  <2> QED  BY <1>3, <1>4, <1>5, <2>1 DEF Stream
<1>7. TypeOK'
  <2>1. /\ rx_notice' \in 0 .. SemMod - 1
        /\ ppc' \in {"top", "sleep", "read", "reset", "take", "blocked", "line"}
    <3>1. CASE ppc = "blocked"
      BY <3>1 DEF ShareInv, TypeOK, Receive, rt_sem_release
    <3>2. CASE ppc # "blocked"
      <4>1. rx_notice' = (rx_notice + 1) % SemMod /\ ppc' = ppc
        BY <3>2 DEF Receive, rt_sem_release
      <4>2. rx_notice \in Nat /\ ppc \in {"top", "sleep", "read", "reset", "take", "blocked", "line"}
        BY DEF ShareInv, TypeOK
      <4>3. (rx_notice + 1) % SemMod \in 0 .. SemMod - 1
        BY <4>2
      <4> QED  BY <4>1, <4>2, <4>3
    <3> QED  BY <3>1, <3>2
  <2>2. /\ recv_buffer' \in {"empty", "whole", "spoilt"}
        /\ lines' \in 0 .. MaxLines /\ taken' \in 0 .. MaxLines
    BY DEF ShareInv, TypeOK, Receive, Cut, history
  <2>3. /\ ch' \in Char /\ sent' \in Char
        /\ last_ch' \in Char \cup {"none"}
        /\ AT_COMPonet_Station' \in {0, 1}
        /\ app' \in {"commands", "data", "closing"}
    BY <1>2, <1>4 DEF ShareInv, TypeOK, Receive
  <2> QED  BY <1>3, <1>5, <2>1, <2>2, <2>3 DEF TypeOK
<1>8. OneLineTaken' /\ Unfinished' /\ InStep' /\ SecondLineWhole'
  <2>1. CASE Len(queue) = Capacity
    <3>1. lines' = 0 /\ taken' = 0
      BY <2>1 DEF Receive, Cut
    <3> QED  BY <3>1 DEF OneLineTaken, Unfinished, InStep, SecondLineWhole
  <2>2. CASE Len(queue) # Capacity
    <3>1. kept = queue
      BY <2>2 DEF kept
    <3>2. UNCHANGED <<lines, taken, recv_buffer, last_ch, AT_COMPonet_Station>>
      BY <2>2 DEF Receive, history
    <3>3. \A d \in Char : Behind(d) => Behind(d)'
      <4> SUFFICES ASSUME NEW d \in Char, Behind(d) PROVE After(d, queue'[1])
        BY <1>5 DEF Behind
      <4>1. CASE queue = << >>
        <5>1. sent = d /\ queue'[1] = c
          BY <1>3, <1>5, <3>1, <4>1 DEF Behind
        <5> QED  BY <1>4, <5>1
      <4>2. CASE queue # << >>
        <5>1. queue'[1] = queue[1]
          BY <1>3, <1>5, <3>1, <4>2
        <5> QED  BY <4>2, <5>1 DEF Behind
      <4> QED  BY <4>1, <4>2
    <3>4. (ppc \in Reading /\ ppc' \in Reading) \/ (ppc \notin Reading /\ ppc' = ppc)
      BY DEF Receive, rt_sem_release, Reading
    <3>5. ppc \in Reading \cup {"line", "top", "sleep"}
      BY DEF ShareInv, TypeOK, Reading
    <3>6. OneLineTaken /\ Unfinished /\ InStep /\ SecondLineWhole
      BY DEF ShareInv
    <3>7. "LF" \in Char /\ {"head", "text", "CR"} \subseteq Char
      BY DEF Char
    <3>8. OneLineTaken' /\ Unfinished'
      BY <3>2, <3>3, <3>4, <3>6, <3>7 DEF OneLineTaken, Unfinished
    <3>9. InStep' /\ SecondLineWhole'
      BY <3>2, <3>3, <3>4, <3>5, <3>6, <3>7 DEF InStep, SecondLineWhole, Reading
    <3> QED  BY <3>8, <3>9
  <2> QED  BY <2>1, <2>2
<1> QED  BY <1>6, <1>7, <1>8 DEF ShareInv

\* The parser reads a character.
LEMMA GetCharKeeps ==
  ASSUME ShareInv, GetChar
  PROVE  ShareInv'
<1> USE CapacityAssumption DEF MaxLines
<1>0. PICK c : c = Head(queue)
  OBVIOUS
<1>1. /\ queue \in Seq(Char) /\ queue # << >> /\ Len(queue) <= Capacity
      /\ queue' = Tail(queue) /\ ch' = c /\ ppc = "read"
  BY <1>0 DEF ShareInv, TypeOK, GetChar, Device!Deliver
<1>2. /\ c = queue[1] /\ c \in Char
      /\ queue' \in Seq(Char)
      /\ Len(queue) \in Nat /\ Len(queue) > 0
      /\ Len(queue') = Len(queue) - 1
      /\ \A i \in 1 .. Len(queue) - 1 : queue'[i] = queue[i + 1]
      /\ queue' # << >> => Len(queue) > 1
  BY <1>0, <1>1, TailFacts
<1>3. UNCHANGED <<sent, rx_notice, AT_COMPonet_Station, app>>
  BY DEF GetChar
<1>4. recv_buffer' = Collect(c) /\ last_ch' = c
  BY <1>0 DEF GetChar
<1>5. /\ taken' = IF c = "head" THEN Count(taken) ELSE taken
      /\ \/ EndsLine(c) /\ ppc' = "line" /\ lines' = Count(lines)
         \/ ~EndsLine(c) /\ UNCHANGED <<ppc, lines>>
  BY <1>0 DEF GetChar
<1>6. /\ \A i \in 1 .. Len(queue) - 1 : After(queue[i], queue[i + 1])
      /\ queue[Len(queue)] = sent
  BY <1>1 DEF ShareInv, Stream
<1>7. Stream'
  BY <1>2, <1>3, <1>6 DEF Stream
<1>8. Behind(c)'
  <2>1. CASE queue' = << >>
    <3>1. Len(queue) = 1
      BY <1>2, <2>1
    <3> QED  BY <1>2, <1>3, <1>6, <2>1, <3>1 DEF Behind
  <2>2. CASE queue' # << >>
    <3>1. Len(queue) > 1 /\ queue'[1] = queue[2] /\ After(queue[1], queue[2])
      BY <1>2, <1>6, <2>2
    <3> QED  BY <1>2, <2>2, <3>1 DEF Behind
  <2> QED  BY <2>1, <2>2
<1>9. TypeOK'
  <2>1. lines \in 0 .. 2 /\ taken \in 0 .. 2
    BY DEF ShareInv, TypeOK
  <2>2. lines' \in 0 .. 2 /\ taken' \in 0 .. 2 /\ ppc' \in {"read", "line"}
    BY <1>1, <1>5, <2>1 DEF Count
  <2>3. recv_buffer' \in {"empty", "whole", "spoilt"}
    BY <1>4 DEF Collect
  <2> QED  BY <1>1, <1>2, <1>3, <1>4, <2>2, <2>3 DEF ShareInv, TypeOK
<1>10. OneLineTaken' /\ Unfinished'
  <2> SUFFICES ASSUME AT_COMPonet_Station = 0
               PROVE  /\ taken' <= 1
                      /\ taken' > 0 /\ ppc' \in Reading =>
                           last_ch' \in {"head", "text", "CR"} /\ Behind(last_ch)'
    BY <1>3 DEF OneLineTaken, Unfinished
  <2>1. taken \in 0 .. 1
    BY DEF ShareInv, TypeOK, OneLineTaken
  <2>2. CASE taken = 0
    <3>1. c = "head" => taken' = 1
      BY <1>5, <2>2 DEF Count
    <3>2. c # "head" => taken' = 0
      BY <1>5, <2>2
    <3> QED  BY <1>4, <1>8, <3>1, <3>2
  <2>3. CASE taken = 1
    <3>1. last_ch \in {"head", "text", "CR"} /\ After(last_ch, c)
      BY <1>1, <1>2, <2>3 DEF ShareInv, Unfinished, Behind, Reading
    <3>2. c # "head" /\ (c = "LF" => EndsLine(c))
      BY <3>1 DEF After, EndsLine
    <3>3. taken' = 1 /\ (c = "LF" => ppc' = "line")
      BY <1>5, <2>3, <3>2
    <3> QED  BY <1>2, <1>4, <1>8, <3>2, <3>3 DEF Reading, Char
  <2> QED  BY <2>1, <2>2, <2>3
<1>11. InStep' /\ SecondLineWhole'
  <2>1. lines \in 0 .. 2
    BY DEF ShareInv, TypeOK
  <2>2. lines > 0 => \/ recv_buffer = "empty" /\ After("LF", c)
                     \/ /\ recv_buffer = "whole"
                        /\ last_ch \in {"head", "text", "CR"}
                        /\ After(last_ch, c)
    BY <1>1, <1>2, <2>1 DEF ShareInv, InStep, Behind, Reading
  <2>3. lines > 0 => recv_buffer' = "whole"
    BY <1>4, <2>2 DEF Collect, After
  <2>4. CASE EndsLine(c)
    <3>1. ppc' = "line" /\ lines' = Count(lines) /\ c = "LF"
      BY <1>5, <2>4 DEF EndsLine
    <3>2. lines' > 1 => lines > 0
      BY <2>1, <3>1 DEF Count
    <3> QED  BY <1>8, <2>3, <3>1, <3>2 DEF InStep, SecondLineWhole, Reading
  <2>5. CASE ~EndsLine(c)
    <3>1. ppc' = "read" /\ lines' = lines
      BY <1>1, <1>5, <2>5
    <3>2. lines > 0 => c \in {"head", "text", "CR"}
      BY <2>2, <2>5 DEF After, EndsLine
    <3> QED  BY <1>4, <1>8, <2>3, <3>1, <3>2 DEF InStep, SecondLineWhole, Reading
  <2> QED  BY <2>4, <2>5
<1> QED  BY <1>7, <1>9, <1>10, <1>11 DEF ShareInv

\* The application reads: the rest of the FIFO is still the end of the stream.
LEMMA ReadKeeps ==
  ASSUME ShareInv, NEW size \in Sizes, rt_device_read(size),
         UNCHANGED <<ch, sent, rx_notice, ppc, last_ch, AT_COMPonet_Station>>,
         app' \in {app, "commands"}
  PROVE  ShareInv'
<1> USE CapacityAssumption, SizesAssumption DEF MaxLines
<1>1. /\ queue \in Seq(Char) /\ Len(queue) <= Capacity /\ size \in Nat \ {0}
      /\ queue' = SubSeq(queue, size + 1, Len(queue))
      /\ lines' = 0 /\ taken' = 0
      /\ recv_buffer' \in {"empty", "whole", "spoilt"}
  BY DEF ShareInv, TypeOK, rt_device_read, Cut
<1>2. /\ queue' \in Seq(Char)
      /\ Len(queue') = (IF size <= Len(queue) THEN Len(queue) - size ELSE 0)
      /\ \A i \in 1 .. Len(queue') : queue'[i] = queue[i + size]
      /\ queue' # << >> => Len(queue') > 0
  BY <1>1, SuffixFacts
<1>3. Len(queue) \in Nat
  BY <1>1
<1>4. Stream'
  <2>1. /\ \A i \in 1 .. Len(queue) - 1 : After(queue[i], queue[i + 1])
        /\ queue # << >> => queue[Len(queue)] = sent
    BY DEF ShareInv, Stream
  <2>2. ASSUME NEW i \in 1 .. Len(queue') - 1
        PROVE  After(queue'[i], queue'[i + 1])
    <3>1. /\ i \in 1 .. Len(queue') /\ i + 1 \in 1 .. Len(queue')
          /\ i + size \in 1 .. Len(queue) - 1
          /\ (i + 1) + size = (i + size) + 1
      BY <1>1, <1>2, <1>3, <2>2
    <3> QED  BY <1>2, <2>1, <3>1
  <2>3. queue' # << >> => queue'[Len(queue')] = sent
    <3> SUFFICES ASSUME queue' # << >> PROVE queue'[Len(queue')] = sent
      OBVIOUS
    <3>1. /\ Len(queue') \in 1 .. Len(queue')
          /\ Len(queue') + size = Len(queue) /\ queue # << >>
      BY <1>1, <1>2, <1>3
    <3> QED  BY <1>2, <2>1, <3>1
  <2> QED  BY <2>2, <2>3 DEF Stream
<1>5. TypeOK'
  BY <1>1, <1>2, <1>3 DEF ShareInv, TypeOK
<1>6. OneLineTaken' /\ Unfinished' /\ InStep' /\ SecondLineWhole'
  BY <1>1 DEF OneLineTaken, Unfinished, InStep, SecondLineWhole
<1> QED  BY <1>4, <1>5, <1>6 DEF ShareInv

\* The other steps leave the stream alone.
LEMMA ShareNext == ShareInv /\ [Next]_vars => ShareInv'
<1> SUFFICES ASSUME ShareInv, [Next]_vars PROVE ShareInv'
  OBVIOUS
<1> USE DEF ShareInv, TypeOK, OneLineTaken, Unfinished, Stream, InStep, SecondLineWhole, Behind,
            Reading, MaxLines
<1>1. ASSUME NEW c \in Char, Receive(c) PROVE ShareInv'
  BY <1>1, ReceiveKeeps
<1>2. CASE Top
  BY <1>2 DEF Top, history
<1>3. CASE Wake
  BY <1>3 DEF Wake, history
<1>4. CASE GetChar
  BY <1>4, GetCharKeeps
<1>5. CASE ReadNothing
  BY <1>5 DEF ReadNothing, history
<1>6. CASE ResetNotice
  BY <1>6, SemAssumption DEF ResetNotice, history
<1>7. CASE TakeNotice
  BY <1>7, SemAssumption DEF TakeNotice, history
<1>8. CASE HandLine
  BY <1>8 DEF HandLine, history
<1>9. CASE SwitchOff
  BY <1>9 DEF SwitchOff, parser
<1>10. CASE ResetBLE
  BY <1>10 DEF ResetBLE, parser, history
<1>11. CASE PowerRest
  BY <1>11 DEF PowerRest, parser, history
<1>12. ASSUME NEW size \in Sizes, ReadData(size) PROVE ShareInv'
  BY <1>12, ReadKeeps DEF ReadData
<1>13. ASSUME NEW size \in Sizes, ReadClosing(size) PROVE ShareInv'
  <2>1. CASE rt_device_read(size)
    BY <1>13, <2>1, ReadKeeps DEF ReadClosing
  <2>2. CASE UNCHANGED <<queue, recv_buffer, history>>
    BY <1>13, <2>2 DEF ReadClosing, history
  <2> QED  BY <1>13, <2>1, <2>2 DEF ReadClosing
<1>14. CASE UNCHANGED vars
  BY <1>14 DEF vars
<1> QED
  BY <1>1, <1>2, <1>3, <1>4, <1>5, <1>6, <1>7, <1>8, <1>9, <1>10, <1>11, <1>12, <1>13,
     <1>14 DEF Next, Interrupt, client_parser, GSM_thread

LEMMA ShareAlways == Spec => []ShareInv
BY ShareInit, ShareNext, PTL DEF Spec

-----------------------------------------------------------------------------
\* The values of the two readers' state, the FIFO's bound included.
THEOREM ShareTypeCorrect == Spec => []TypeOK
BY ShareAlways, PTL DEF ShareInv

\* client_parser, once switched off, takes at most one of the lines that the modem
\* sends then, and one more for each read of the application's or overflow that
\* takes the end of its line away.
THEOREM OneLineCorrect == Spec => []OneLineTaken
BY ShareAlways, PTL DEF ShareInv

\* at_recv_readline is in step again with the second line after any cut.
THEOREM SecondLineCorrect == Spec => []SecondLineWhole
BY ShareAlways, PTL DEF ShareInv
=============================================================================
