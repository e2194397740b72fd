--------------------------- MODULE SerialRxProofs ---------------------------
(* SerialRx implements ByteQueue, for every size of the FIFO and every burst. *)
EXTENDS SerialRx, SequenceTheorems, TLAPS

RxInv == TypeOK /\ FullIsNotEmpty

LEMMA SuccIndex == \A i \in Index : Succ(i) \in Index /\ Succ(i) # i
BY BufszAssumption DEF Succ, Index

LEMMA RxInit == Init => RxInv
<1> SUFFICES ASSUME Init PROVE RxInv
  OBVIOUS
<1>1. is_full \in BOOLEAN /\ FullIsNotEmpty
  BY DEF Init, FullIsNotEmpty
<1>2. QED
  BY <1>1, BufszAssumption, BurstAssumption, SemModAssumption
     DEF Init, RxInv, TypeOK, Index, ReaderPC

LEMMA RxStep == RxInv /\ [Next]_vars => RxInv'
<1> SUFFICES ASSUME RxInv, [Next]_vars PROVE RxInv'
  OBVIOUS
<1>0. USE BurstAssumption, SemModAssumption
      DEF RxInv, TypeOK, FullIsNotEmpty, ReaderPC, fifo
<1>1. CASE RaiseInterrupt
  BY <1>1 DEF RaiseInterrupt
<1>2. ASSUME NEW b \in Byte, rt_hw_serial_isr(b) PROVE RxInv'
  <2>1. /\ buffer' \in [Index -> Byte]
        /\ put_index' \in Index /\ get_index' \in Index
        /\ put_index' = Succ(put_index)
        /\ ch' \in Byte
        /\ pending' \in 0 .. Burst
    BY <1>2, SuccIndex DEF rt_hw_serial_isr
  <2>2. is_full' \in BOOLEAN /\ (is_full' => put_index' # get_index')
    BY <1>2, SuccIndex DEF rt_hw_serial_isr
  <2>3. (rx_notice + 1) % SemMod \in 0 .. SemMod - 1
    OBVIOUS
  <2>4. rx_notice' \in 0 .. SemMod - 1 /\ pc' \in ReaderPC
    BY <1>2, <2>3 DEF rt_hw_serial_isr, rt_sem_release
  <2>5. QED
    BY <2>1, <2>2, <2>4
<1>3. CASE _serial_int_rx
  <2>1. is_full' = FALSE
    BY <1>3 DEF _serial_int_rx
  <2>2. QED
    BY <1>3, <2>1, SuccIndex DEF _serial_int_rx
<1>4. CASE ReadNothing
  BY <1>4 DEF ReadNothing
<1>5. CASE ResetNotice
  BY <1>5 DEF ResetNotice
<1>6. CASE TakeNotice
  BY <1>6 DEF TakeNotice
<1>7. CASE NextChar
  BY <1>7 DEF NextChar
<1>8. CASE UNCHANGED vars
  BY <1>8 DEF vars
<1>9. QED
  BY <1>1, <1>2, <1>3, <1>4, <1>5, <1>6, <1>7, <1>8
     DEF Next, ISR, at_client_getchar

\* The indices of the receive FIFO stay inside its buffer, and the semaphore
\* inside its 16 bits.
THEOREM RxTypeCorrect == Spec => []TypeOK
BY RxInit, RxStep, PTL DEF Spec, RxInv

\* The overflow branch of rt_hw_serial_isr never leaves a FIFO that is marked
\* full and has equal indices, from which _serial_int_rx would read characters
\* that were never received.
THEOREM FullCorrect == Spec => []FullIsNotEmpty
BY RxInit, RxStep, PTL DEF Spec, RxInv
-----------------------------------------------------------------------------
(* The refinement *)

\* Where the i-th character after get_index g is.
Slot(g, i) == IF g + i - 1 >= bufsz THEN g + i - 1 - bufsz ELSE g + i - 1

\* How many characters lie between get_index g and put_index p.
Between(g, p) == IF p >= g THEN p - g ELSE bufsz - (g - p)

\* The first n characters after get_index g.
Ring(buf, g, n) == [i \in 1 .. n |-> buf[Slot(g, i)]]

LEMMA UnreadIsRing ==
  /\ Length = Between(get_index, put_index)
  /\ Unread = Ring(buffer, get_index, Between(get_index, put_index))
  /\ Unread' = Ring(buffer', get_index', Between(get_index', put_index'))
BY DEF Unread, Ring, Slot, Length, Between

LEMMA SlotIndex ==
  ASSUME NEW g \in Index, NEW i \in 1 .. bufsz
  PROVE  Slot(g, i) \in Index
BY BufszAssumption DEF Slot, Index

\* Moving get_index on by one renumbers the characters.
LEMMA SlotSucc ==
  ASSUME NEW g \in Index, NEW i \in 1 .. bufsz - 1
  PROVE  Slot(Succ(g), i) = Slot(g, i + 1)
BY BufszAssumption DEF Slot, Index, Succ

\* put_index is the slot behind the unread characters, and no slot of theirs.
LEMMA SlotPut ==
  ASSUME NEW g \in Index, NEW p \in Index
  PROVE  /\ Between(g, p) \in 0 .. bufsz - 1
         /\ Slot(g, Between(g, p) + 1) = p
         /\ \A i \in 1 .. Between(g, p) : Slot(g, i) # p
<1>1. Between(g, p) \in 0 .. bufsz - 1
  BY BufszAssumption DEF Between, Index
<1>2. Slot(g, Between(g, p) + 1) = p
  BY BufszAssumption DEF Between, Slot, Index
<1>3. ASSUME NEW i \in 1 .. Between(g, p) PROVE Slot(g, i) # p
  BY <1>3, <1>1, BufszAssumption DEF Between, Slot, Index
<1>4. QED
  BY <1>1, <1>2, <1>3

\* What advancing an index does to the number of characters.
LEMMA BetweenSucc ==
  ASSUME NEW g \in Index, NEW p \in Index
  PROVE  /\ Succ(p) # g => Between(g, Succ(p)) = Between(g, p) + 1
         /\ Succ(p) = g => /\ Between(g, p) = bufsz - 1
                           /\ Between(Succ(g), g) = bufsz - 1
         /\ g # p => Between(Succ(g), p) = Between(g, p) - 1
BY BufszAssumption DEF Between, Index, Succ

LEMMA BetweenEmpty ==
  ASSUME NEW g \in Index, NEW p \in Index
  PROVE  Between(g, p) = 0 <=> g = p
BY BufszAssumption DEF Between, Index

LEMMA RingSeq ==
  ASSUME NEW buf \in [Index -> Byte], NEW g \in Index, NEW n \in 0 .. bufsz - 1
  PROVE  /\ Ring(buf, g, n) \in Seq(Byte)
         /\ Len(Ring(buf, g, n)) = n
         /\ \A i \in 1 .. n : Ring(buf, g, n)[i] = buf[Slot(g, i)]
<1>1. \A i \in 1 .. n : i \in 1 .. bufsz
  BY BufszAssumption
<1>2. \A i \in 1 .. n : buf[Slot(g, i)] \in Byte
  BY <1>1, SlotIndex
<1>3. n \in Nat
  BY BufszAssumption
<1>4. QED
  BY <1>2, <1>3 DEF Ring

\* Reading takes the head and leaves the tail.
LEMMA RingRead ==
  ASSUME NEW buf \in [Index -> Byte], NEW g \in Index, NEW n \in 1 .. bufsz - 1
  PROVE  /\ Ring(buf, g, n) # << >>
         /\ Head(Ring(buf, g, n)) = buf[g]
         /\ Tail(Ring(buf, g, n)) = Ring(buf, Succ(g), n - 1)
<1> DEFINE r == Ring(buf, g, n)
           t == Ring(buf, Succ(g), n - 1)
<1>1. /\ r \in Seq(Byte) /\ Len(r) = n
      /\ \A i \in 1 .. n : r[i] = buf[Slot(g, i)]
  BY RingSeq, BufszAssumption
<1>2. Succ(g) \in Index /\ n - 1 \in 0 .. bufsz - 1
  BY SuccIndex, BufszAssumption
<1>3. /\ t \in Seq(Byte) /\ Len(t) = n - 1
      /\ \A i \in 1 .. n - 1 : t[i] = buf[Slot(Succ(g), i)]
  BY <1>2, RingSeq
<1> HIDE DEF r, t
<1>4. r # << >>
  BY <1>1, BufszAssumption
<1>5. Slot(g, 1) = g
  BY BufszAssumption DEF Slot, Index
<1>6. Head(r) = buf[g]
  BY <1>1, <1>4, <1>5, BufszAssumption
<1>7. /\ Tail(r) \in Seq(Byte) /\ Len(Tail(r)) = n - 1
      /\ \A i \in 1 .. n - 1 : Tail(r)[i] = r[i + 1]
  BY <1>1, <1>4, HeadTailProperties
<1>8. ASSUME NEW i \in 1 .. n - 1 PROVE Tail(r)[i] = t[i]
  <2>1. i \in 1 .. bufsz - 1 /\ i + 1 \in 1 .. n
    BY BufszAssumption
  <2>2. Slot(Succ(g), i) = Slot(g, i + 1)
    BY <2>1, SlotSucc
  <2>3. QED
    BY <1>1, <1>3, <1>7, <2>1, <2>2
<1>9. Tail(r) = t
  BY <1>3, <1>7, <1>8, SeqEqual
<1>10. QED
  BY <1>4, <1>6, <1>9 DEF r, t

\* Storing behind n < bufsz - 1 characters appends.
LEMMA RingStore ==
  ASSUME NEW buf \in [Index -> Byte], NEW g \in Index, NEW n \in 0 .. bufsz - 2,
         NEW p \in Index, NEW b \in Byte,
         Slot(g, n + 1) = p, \A i \in 1 .. n : Slot(g, i) # p
  PROVE  Ring([buf EXCEPT ![p] = b], g, n + 1) = Append(Ring(buf, g, n), b)
<1> DEFINE new == [buf EXCEPT ![p] = b]
           r == Ring(buf, g, n)
           s == Ring(new, g, n + 1)
           a == Append(r, b)
<1>1. new \in [Index -> Byte] /\ new[p] = b
      /\ \A j \in Index : j # p => new[j] = buf[j]
  OBVIOUS
<1>2. n \in 0 .. bufsz - 1 /\ n + 1 \in 0 .. bufsz - 1
  BY BufszAssumption
<1>3. /\ r \in Seq(Byte) /\ Len(r) = n
      /\ \A i \in 1 .. n : r[i] = buf[Slot(g, i)]
  BY <1>2, RingSeq
<1> HIDE DEF new
<1>4. /\ s \in Seq(Byte) /\ Len(s) = n + 1
      /\ \A i \in 1 .. n + 1 : s[i] = new[Slot(g, i)]
  BY <1>1, <1>2, RingSeq
<1> HIDE DEF r, s
<1>5. /\ a \in Seq(Byte) /\ Len(a) = n + 1
      /\ \A i \in 1 .. n : a[i] = r[i]
      /\ a[n + 1] = b
  BY <1>3, AppendProperties
<1> HIDE DEF a
<1>6. ASSUME NEW i \in 1 .. n + 1 PROVE s[i] = a[i]
  <2>1. CASE i = n + 1
    BY <2>1, <1>1, <1>4, <1>5
  <2>2. CASE i # n + 1
    <3>1. i \in 1 .. n /\ i \in 1 .. bufsz
      BY <2>2, BufszAssumption
    <3>2. Slot(g, i) \in Index /\ Slot(g, i) # p
      BY <3>1, SlotIndex
    <3>3. QED
      BY <3>1, <3>2, <1>1, <1>3, <1>4, <1>5
  <2>3. QED
    BY <2>1, <2>2
<1>7. s = a
  BY <1>4, <1>5, <1>6, SeqEqual
<1>8. QED
  BY <1>7 DEF s, a, r, new

LEMMA InitMaps == Init => Queue!Init
<1> SUFFICES ASSUME Init PROVE Queue!Init
  OBVIOUS
<1>1. Between(get_index, put_index) = 0
  BY BufszAssumption DEF Init, Between
<1>2. Unread = << >>
  BY <1>1, UnreadIsRing DEF Ring
<1>3. QED
  BY <1>2 DEF Init, Queue!Init

LEMMA StoreMaps ==
  ASSUME RxInv, NEW b \in Byte, rt_hw_serial_isr(b)
  PROVE  Queue!Arrive(b)
<1> DEFINE n == Between(get_index, put_index)
<1>1. /\ buffer \in [Index -> Byte] /\ put_index \in Index /\ get_index \in Index
      /\ buffer' = [buffer EXCEPT ![put_index] = b]
      /\ put_index' = Succ(put_index)
      /\ ch' = ch
  BY DEF RxInv, TypeOK, rt_hw_serial_isr
<1>2. /\ n \in 0 .. bufsz - 1
      /\ Slot(get_index, n + 1) = put_index
      /\ \A i \in 1 .. n : Slot(get_index, i) # put_index
  BY <1>1, SlotPut
<1>3. Len(Unread) = n /\ Unread = Ring(buffer, get_index, n)
  BY <1>1, <1>2, UnreadIsRing, RingSeq
<1>4. CASE Succ(put_index) # get_index
  <2>1. /\ get_index' = get_index
        /\ Between(get_index', put_index') = n + 1
    BY <1>1, <1>4, BetweenSucc DEF rt_hw_serial_isr
  <2>2. n \in 0 .. bufsz - 2 /\ n # bufsz - 1
    <3>1. Succ(put_index) \in Index
      BY <1>1, SuccIndex
    <3>2. Between(get_index, Succ(put_index)) \in 0 .. bufsz - 1
      BY <3>1, <1>1, SlotPut
    <3>3. QED
      BY <3>2, <1>1, <1>2, <2>1, BufszAssumption
  <2>3. Unread' = Append(Unread, b)
    <3>1. Ring(buffer', get_index, n + 1) = Append(Ring(buffer, get_index, n), b)
      BY <1>1, <1>2, <2>2, RingStore
    <3>2. QED
      BY <3>1, <1>3, <2>1, UnreadIsRing
  <2>4. QED
    BY <1>1, <1>3, <2>2, <2>3 DEF Queue!Arrive
<1>5. CASE Succ(put_index) = get_index
  <2>1. /\ get_index' = Succ(get_index)
        /\ n = bufsz - 1
        /\ Between(get_index', put_index') = bufsz - 1
    BY <1>1, <1>5, BetweenSucc DEF rt_hw_serial_isr
  <2>2. Tail(Unread) = Ring(buffer, Succ(get_index), n - 1)
    <3>1. n \in 1 .. bufsz - 1
      BY <2>1, BufszAssumption
    <3> HIDE DEF n
    <3>2. Tail(Ring(buffer, get_index, n)) = Ring(buffer, Succ(get_index), n - 1)
      BY <3>1, <1>1, RingRead
    <3>3. QED
      BY <3>2, <1>3
  <2>3. /\ Slot(Succ(get_index), n) = put_index
        /\ \A i \in 1 .. n - 1 : Slot(Succ(get_index), i) # put_index
    <3>1. \A i \in 1 .. n : Slot(Succ(get_index), i) = Slot(get_index, i + 1)
      BY <1>1, <2>1, SlotSucc
    <3>2. n \in 1 .. n /\ \A i \in 1 .. n - 1 : i \in 1 .. n /\ i + 1 \in 1 .. n
      BY <2>1, BufszAssumption
    <3>3. QED
      BY <3>1, <3>2, <1>2
  <2>4. Unread' = Append(Tail(Unread), b)
    <3>1. Succ(get_index) \in Index /\ n - 1 \in 0 .. bufsz - 2 /\ n - 1 + 1 = n
      BY <1>1, <2>1, SuccIndex, BufszAssumption
    <3> DEFINE m == n - 1
               g == Succ(get_index)
    <3>2. g \in Index /\ m \in 0 .. bufsz - 2 /\ Slot(g, m + 1) = put_index
          /\ \A i \in 1 .. m : Slot(g, i) # put_index
      BY <2>3, <3>1
    <3> HIDE DEF m, g
    <3>4. Ring([buffer EXCEPT ![put_index] = b], g, m + 1)
            = Append(Ring(buffer, g, m), b)
      BY <1>1, <3>2, RingStore
    <3>5. Ring(buffer', Succ(get_index), n)
            = Append(Ring(buffer, Succ(get_index), n - 1), b)
      BY <1>1, <3>1, <3>4 DEF m, g
    <3>6. QED
      BY <3>5, <2>1, <2>2, UnreadIsRing
  <2>5. QED
    BY <1>1, <1>3, <2>1, <2>4 DEF Queue!Arrive
<1>6. QED
  BY <1>4, <1>5

LEMMA ReadMaps ==
  ASSUME RxInv, _serial_int_rx
  PROVE  Queue!Deliver
<1> DEFINE n == Between(get_index, put_index)
<1>1. /\ buffer \in [Index -> Byte] /\ put_index \in Index /\ get_index \in Index
      /\ buffer' = buffer /\ put_index' = put_index
      /\ get_index' = Succ(get_index)
      /\ ch' = buffer[get_index]
  BY DEF RxInv, TypeOK, _serial_int_rx
<1>2. get_index # put_index
  BY DEF RxInv, TypeOK, FullIsNotEmpty, _serial_int_rx, Empty
<1>3. n \in 1 .. bufsz - 1
  BY <1>1, <1>2, SlotPut, BetweenEmpty, BufszAssumption
<1>4. Between(get_index', put_index') = n - 1
  BY <1>1, <1>2, BetweenSucc
<1>5. Unread = Ring(buffer, get_index, n)
      /\ Unread' = Ring(buffer, Succ(get_index), n - 1)
  BY <1>1, <1>4, UnreadIsRing
<1>6. QED
  BY <1>1, <1>3, <1>5, RingRead DEF Queue!Deliver

LEMMA OtherMaps ==
  ASSUME UNCHANGED <<fifo, ch>>
  PROVE  UNCHANGED <<Unread, ch>>
BY DEF fifo, Unread, Length

\* For every size of the FIFO and every burst of characters, the receive path of
\* serial.c is a FIFO queue: rt_hw_serial_isr appends, at the cost of the oldest
\* character when bufsz - 1 are unread, _serial_int_rx takes the oldest, and no
\* other step of the reader or the semaphore changes what is unread.
THEOREM RxRefines == Spec => ImplementsByteQueue
<1>1. RxInv /\ [Next]_vars => [Queue!Next]_<<Unread, ch>>
  <2> SUFFICES ASSUME RxInv, [Next]_vars PROVE [Queue!Next]_<<Unread, ch>>
    OBVIOUS
  <2>1. ASSUME NEW b \in Byte, rt_hw_serial_isr(b) PROVE Queue!Next
    BY <2>1, StoreMaps DEF Queue!Next
  <2>2. CASE _serial_int_rx
    BY <2>2, ReadMaps DEF Queue!Next
  <2>3. CASE \/ RaiseInterrupt \/ ReadNothing \/ ResetNotice \/ TakeNotice
             \/ NextChar \/ UNCHANGED vars
    <3>1. UNCHANGED <<fifo, ch>>
      BY <2>3 DEF RaiseInterrupt, ReadNothing, ResetNotice, TakeNotice, NextChar,
                  vars, fifo
    <3>2. QED
      BY <3>1, OtherMaps
  <2>4. QED
    BY <2>1, <2>2, <2>3 DEF Next, ISR, at_client_getchar
<1>2. QED
  BY <1>1, RxInit, RxStep, InitMaps, PTL DEF Spec, ImplementsByteQueue, Queue!Spec
=============================================================================
