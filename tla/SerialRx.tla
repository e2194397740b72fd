------------------------------ MODULE SerialRx ------------------------------
(***************************************************************************)
(* The interrupt-driven receive path of the UART the modem is on, from the *)
(* ISR to the thread that reads characters:                                *)
(*                                                                         *)
(*   - the software FIFO of serial.c (buffer, put_index, get_index,        *)
(*     is_full), filled by rt_hw_serial_isr and emptied by _serial_int_rx; *)
(*   - the rx_notice semaphore, released by at_client_rx_ind at the end of *)
(*     each interrupt;                                                     *)
(*   - at_client_getchar, which reads a character and, when there is none, *)
(*     resets the semaphore and takes it for ever.                         *)
(*                                                                         *)
(* An interrupt runs to completion between any two steps of the reader;    *)
(* the reader's own steps are its kernel calls, each of which masks        *)
(* interrupts.                                                             *)
(***************************************************************************)
EXTENDS Integers, Sequences

CONSTANTS Byte,      \* the values a received character may have
          bufsz,     \* serial->config.bufsz, the size of the FIFO
          Burst,     \* most characters one interrupt's getc loop finds
          SemMod     \* sem->value is rt_uint16_t: 65536 in the build

ASSUME BufszAssumption == bufsz \in Nat /\ bufsz > 1
ASSUME ByteAssumption  == Byte # {}
ASSUME BurstAssumption == Burst \in Nat \ {0}
ASSUME SemModAssumption == SemMod \in Nat /\ SemMod > 1

VARIABLES buffer, put_index, get_index, is_full,  \* struct rt_serial_rx_fifo
          pending,      \* characters the running interrupt may still find
          rx_notice,    \* the semaphore's value
          pc,           \* where the reader is in at_client_getchar
          ch            \* the character it read

fifo == <<buffer, put_index, get_index, is_full>>
vars == <<buffer, put_index, get_index, is_full, pending, rx_notice, pc, ch>>

\* "read": about to call rt_device_read; "reset": it returned 0; "take": the
\* semaphore is reset; "blocked": suspended on it; "got": a character is
\* returned to the caller.
ReaderPC == {"read", "reset", "take", "blocked", "got"}

Index == 0 .. bufsz - 1

\* Mutant: the wrap test is off by one.
SuccLate(i) == IF i + 1 > bufsz THEN 0 ELSE i + 1

\* index += 1; if (index >= bufsz) index = 0
Succ(i) == IF i + 1 >= bufsz THEN 0 ELSE i + 1

\* rx_length: how many characters are between the indices
Length == IF put_index >= get_index
            THEN put_index - get_index
            ELSE bufsz - (get_index - put_index)

TypeOK ==
  /\ buffer \in [Index -> Byte]
  /\ put_index \in Index
  /\ get_index \in Index
  /\ is_full \in BOOLEAN
  /\ pending \in 0 .. Burst
  /\ rx_notice \in 0 .. SemMod - 1
  /\ pc \in ReaderPC
  /\ ch \in Byte

Init ==
  /\ buffer \in {[i \in Index |-> b] : b \in Byte}
  /\ put_index = 0
  /\ get_index = 0
  /\ is_full = FALSE
  /\ pending = 0
  /\ rx_notice = 0
  /\ pc = "read"
  /\ ch \in Byte

-----------------------------------------------------------------------------
(* The interrupt *)

\* The UART raises its interrupt: its getc loop will find n characters.
RaiseInterrupt ==
  /\ pending = 0
  /\ pending' \in 1 .. Burst
  /\ UNCHANGED <<buffer, put_index, get_index, is_full, rx_notice, pc, ch>>

\* rt_sem_release by at_client_rx_ind: hand over to the waiter or count.
rt_sem_release ==
  IF pc = "blocked"
    THEN pc' = "read" /\ UNCHANGED rx_notice
    ELSE rx_notice' = (rx_notice + 1) % SemMod /\ UNCHANGED pc

\* Mutant: a full FIFO is marked, but the oldest character is not given up.
KeepOldest(b) ==
  /\ pending > 0
  /\ buffer' = [buffer EXCEPT ![put_index] = b]
  /\ put_index' = Succ(put_index)
  /\ is_full' = (is_full \/ Succ(put_index) = get_index)
  /\ pending' = pending - 1
  /\ IF pending = 1 THEN rt_sem_release ELSE UNCHANGED <<rx_notice, pc>>
  /\ UNCHANGED <<get_index, ch>>

\* Mutant: the reader is told only when the FIFO was empty before.
NotifyWhenEmpty(b) ==
  /\ pending > 0
  /\ buffer' = [buffer EXCEPT ![put_index] = b]
  /\ put_index' = Succ(put_index)
  /\ IF Succ(put_index) = get_index
       THEN get_index' = Succ(get_index) /\ is_full' = TRUE
       ELSE UNCHANGED <<get_index, is_full>>
  /\ pending' = pending - 1
  /\ IF pending = 1 /\ Length' = 1 THEN rt_sem_release ELSE UNCHANGED <<rx_notice, pc>>
  /\ UNCHANGED ch

\* One turn of the getc loop of rt_hw_serial_isr: store the character, advance
\* put_index and, when it meets get_index, give up the oldest character.  The
\* last turn is followed by rx_indicate, which releases rx_notice when the
\* length is positive.
rt_hw_serial_isr(b) ==
  /\ pending > 0
  /\ LET next == Succ(put_index) IN
       /\ buffer' = [buffer EXCEPT ![put_index] = b]
       /\ put_index' = next
       /\ IF next = get_index
            THEN get_index' = Succ(get_index) /\ is_full' = TRUE
            ELSE UNCHANGED <<get_index, is_full>>
  /\ pending' = pending - 1
  /\ IF pending = 1 /\ Length' > 0
       THEN rt_sem_release
       ELSE UNCHANGED <<rx_notice, pc>>
  /\ UNCHANGED ch

-----------------------------------------------------------------------------
(* The reader: at_client_getchar.  No step while an interrupt is running. *)

Empty == get_index = put_index /\ is_full = FALSE

\* Mutant: get_index is advanced before the character is fetched.
AdvanceFirst ==
  /\ pending = 0
  /\ pc = "read"
  /\ ~Empty
  /\ ch' = buffer[Succ(get_index)]
  /\ get_index' = Succ(get_index)
  /\ is_full' = FALSE
  /\ pc' = "got"
  /\ UNCHANGED <<buffer, put_index, pending, rx_notice>>

\* rt_device_read(.., 1) returns 1: _serial_int_rx takes a character.
_serial_int_rx ==
  /\ pending = 0
  /\ pc = "read"
  /\ ~Empty
  /\ ch' = buffer[get_index]
  /\ get_index' = Succ(get_index)
  /\ is_full' = FALSE
  /\ pc' = "got"
  /\ UNCHANGED <<buffer, put_index, pending, rx_notice>>

\* rt_device_read(.., 1) returns 0.
ReadNothing ==
  /\ pending = 0
  /\ pc = "read"
  /\ Empty
  /\ pc' = "reset"
  /\ UNCHANGED <<fifo, pending, rx_notice, ch>>

\* rt_sem_control(rx_notice, RT_IPC_CMD_RESET, RT_NULL)
ResetNotice ==
  /\ pending = 0
  /\ pc = "reset"
  /\ rx_notice' = 0
  /\ pc' = "take"
  /\ UNCHANGED <<fifo, pending, ch>>

\* rt_sem_take(rx_notice, RT_WAITING_FOREVER)
TakeNotice ==
  /\ pending = 0
  /\ pc = "take"
  /\ IF rx_notice > 0
       THEN rx_notice' = rx_notice - 1 /\ pc' = "read"
       ELSE pc' = "blocked" /\ UNCHANGED rx_notice
  /\ UNCHANGED <<fifo, pending, ch>>

\* The caller (at_recv_readline, at_client_obj_recv) asks for the next one.
NextChar ==
  /\ pending = 0
  /\ pc = "got"
  /\ pc' = "read"
  /\ UNCHANGED <<fifo, pending, rx_notice, ch>>

at_client_getchar ==
  _serial_int_rx \/ ReadNothing \/ ResetNotice \/ TakeNotice \/ NextChar

ISR == \E b \in Byte : rt_hw_serial_isr(b)

Next == RaiseInterrupt \/ ISR \/ at_client_getchar

Spec == Init /\ [][Next]_vars

\* An interrupt that started ends, and the reader thread takes its steps: strong
\* fairness, because a character takes far longer to arrive than an interrupt or
\* a kernel call takes to run, so interrupts cannot keep the reader out for ever.
\* Nothing obliges the modem to send.
FairSpec == Spec /\ WF_vars(ISR) /\ SF_vars(at_client_getchar)

\* The same with a modem that never falls silent for good.
TalkingSpec == FairSpec /\ WF_vars(RaiseInterrupt)

-----------------------------------------------------------------------------
(* Properties *)

\* is_full never marks an empty FIFO: had the overflow branch left the indices
\* equal, _serial_int_rx would hand out a character that was never received.
FullIsNotEmpty == is_full => put_index # get_index

\* The unread characters, oldest first.
Unread == [i \in 1 .. Length |->
             buffer[IF get_index + i - 1 >= bufsz
                      THEN get_index + i - 1 - bufsz
                      ELSE get_index + i - 1]]

\* The index arithmetic of serial.c, wrap-around and overflow included, is a
\* FIFO queue of bufsz - 1 characters that forgets the oldest when it is full.
Queue == INSTANCE ByteQueue WITH queue <- Unread, out <- ch,
                                 Capacity <- bufsz - 1
ImplementsByteQueue == Queue!Spec

\* While the modem keeps sending, the reader always comes to its next
\* character: a wake-up lost to the reset in at_client_getchar is made up for
\* by the next interrupt.  (Were the modem to fall silent then, the reader would
\* sleep with characters in the FIFO.)
ReaderKeepsUp == (pc = "read") ~> (pc = "got")
=============================================================================
