----------------------------- MODULE UartShare -----------------------------
(***************************************************************************)
(* Two readers of one UART: the parser of the AT client, which collects    *)
(* lines (client_parser, at_recv_readline), and the application's thread,  *)
(* which reads whatever is there (rt_device_read in APP_OneNet.c and       *)
(* gsm_comm.c).  The application keeps the parser out with                 *)
(* AT_COMPonet_Station, which the parser looks at only between two lines.  *)
(*                                                                         *)
(* The receive FIFO is what SerialRx implements, a ByteQueue.  The         *)
(* application's thread has the higher priority: what it does between two  *)
(* delays is one step of the parser's.  A line is a head, perhaps a text,  *)
(* and CR LF; it fits recv_buffer, and no URC table is set, as in this     *)
(* application.                                                            *)
(***************************************************************************)
EXTENDS Integers, Sequences

CONSTANTS
  Capacity,   \* characters the receive FIFO keeps
  SemMod,     \* values of a semaphore
  Sizes       \* sizes of the application's read buffers

ASSUME CapacityAssumption == Capacity \in Nat /\ Capacity > 1
ASSUME SemAssumption      == SemMod \in Nat /\ SemMod > 1
ASSUME SizesAssumption    == Sizes \subseteq Nat \ {0}

Char == {"head", "text", "CR", "LF"}

VARIABLES
  queue, ch,             \* the FIFO, and the character at_client_getchar read last
  sent,                  \* the character the modem sent last
  rx_notice,             \* value of the semaphore
  ppc, last_ch,          \* the parser: its place, last_ch of at_recv_readline
  recv_buffer,           \* "empty", "whole" (a line from its head on) or "spoilt"
  AT_COMPonet_Station,
  app,                   \* the application: "commands", "data" or "closing"
  taken,                 \* history: lines the parser began to take since the
                         \* switch-off and since characters went elsewhere
  lines                  \* history: lines it ended since characters went elsewhere

parser  == <<ppc, last_ch, recv_buffer>>
history == <<taken, lines>>
vars == <<queue, ch, sent, rx_notice, ppc, last_ch, recv_buffer,
          AT_COMPonet_Station, app, taken, lines>>

Device == INSTANCE ByteQueue WITH Byte <- Char, out <- ch

\* History counters stop here.
MaxLines == 2
Count(n) == IF n < MaxLines THEN n + 1 ELSE n

\* Characters went elsewhere: a line the parser has begun is not whole any more.
Cut ==
  /\ lines' = 0
  /\ taken' = 0
  /\ recv_buffer' = IF recv_buffer = "whole" THEN "spoilt" ELSE recv_buffer

-----------------------------------------------------------------------------
(* The modem and the interrupt *)

Follows(c) == \/ sent = "LF" /\ c = "head"
              \/ sent = "head" /\ c \in {"text", "CR"}
              \/ sent = "text" /\ c = "CR"
              \/ sent = "CR" /\ c = "LF"

\* at_client_rx_ind
rt_sem_release ==
  IF ppc = "blocked"
    THEN ppc' = "read" /\ UNCHANGED rx_notice
    ELSE rx_notice' = (rx_notice + 1) % SemMod /\ UNCHANGED ppc

\* Mutant: the parser is told of the first character only.
ReceiveFirst(c) ==
  /\ Follows(c)
  /\ Device!Arrive(c)
  /\ sent' = c
  /\ IF Len(queue) = Capacity THEN Cut ELSE UNCHANGED <<history, recv_buffer>>
  /\ IF queue = << >> THEN rt_sem_release ELSE UNCHANGED <<rx_notice, ppc>>
  /\ UNCHANGED <<last_ch, AT_COMPonet_Station, app>>

Receive(c) ==
  /\ Follows(c)
  /\ Device!Arrive(c)
  /\ sent' = c
  /\ IF Len(queue) = Capacity THEN Cut ELSE UNCHANGED <<history, recv_buffer>>
  /\ rt_sem_release
  /\ UNCHANGED <<last_ch, AT_COMPonet_Station, app>>

-----------------------------------------------------------------------------
(* client_parser and at_recv_readline *)

\* Mutant: the switch is not looked at.
TopAlways ==
  /\ ppc = "top"
  /\ ppc' = "read"
  /\ recv_buffer' = "empty"
  /\ last_ch' = "none"
  /\ UNCHANGED <<queue, ch, sent, rx_notice, AT_COMPonet_Station, app, history>>

\* The loop of client_parser: sleep while the switch is off, or begin a line.
Top ==
  /\ ppc = "top"
  /\ \/ /\ AT_COMPonet_Station = 0
        /\ ppc' = "sleep"
        /\ UNCHANGED <<recv_buffer, last_ch>>
     \/ /\ AT_COMPonet_Station # 0
        /\ ppc' = "read"
        /\ recv_buffer' = "empty"
        /\ last_ch' = "none"
  /\ UNCHANGED <<queue, ch, sent, rx_notice, AT_COMPonet_Station, app, history>>

\* rt_thread_delay(100) is over.
Wake ==
  /\ ppc = "sleep"
  /\ ppc' = "top"
  /\ UNCHANGED <<queue, ch, sent, rx_notice, last_ch, recv_buffer,
                 AT_COMPonet_Station, app, history>>

\* Mutant: a CR ends the line.
EndsAtCR(c) == c = "CR"

EndsLine(c) == c = "LF" /\ last_ch = "CR"

\* recv_buffer with one more character
Collect(c) ==
  IF \/ recv_buffer = "empty" /\ c = "head"
     \/ recv_buffer = "whole" /\ c # "head"
    THEN "whole" ELSE "spoilt"

\* at_client_getchar has read a character.
GetChar ==
  LET c == Head(queue) IN
  /\ ppc = "read"
  /\ Device!Deliver
  /\ recv_buffer' = Collect(c)
  /\ last_ch' = c
  /\ taken' = IF c = "head" THEN Count(taken) ELSE taken
  /\ IF EndsLine(c) THEN ppc' = "line" /\ lines' = Count(lines)
                    ELSE UNCHANGED <<ppc, lines>>
  /\ UNCHANGED <<sent, rx_notice, AT_COMPonet_Station, app>>

\* at_client_getchar finds nothing, resets the semaphore and takes it.
ReadNothing ==
  /\ ppc = "read"
  /\ queue = << >>
  /\ ppc' = "reset"
  /\ UNCHANGED <<queue, ch, sent, rx_notice, last_ch, recv_buffer,
                 AT_COMPonet_Station, app, history>>

ResetNotice ==
  /\ ppc = "reset"
  /\ rx_notice' = 0
  /\ ppc' = "take"
  /\ UNCHANGED <<queue, ch, sent, last_ch, recv_buffer, AT_COMPonet_Station,
                 app, history>>

\* Mutant: the semaphore is taken whatever its value.
TakeAnyway ==
  /\ ppc = "take"
  /\ rx_notice' = rx_notice - 1
  /\ ppc' = "read"
  /\ UNCHANGED <<queue, ch, sent, last_ch, recv_buffer, AT_COMPonet_Station,
                 app, history>>

TakeNotice ==
  /\ ppc = "take"
  /\ IF rx_notice > 0
       THEN rx_notice' = rx_notice - 1 /\ ppc' = "read"
       ELSE ppc' = "blocked" /\ UNCHANGED rx_notice
  /\ UNCHANGED <<queue, ch, sent, last_ch, recv_buffer, AT_COMPonet_Station,
                 app, history>>

\* The line goes to the response, or nowhere; ATClient has what becomes of it.
HandLine ==
  /\ ppc = "line"
  /\ ppc' = "top"
  /\ UNCHANGED <<queue, ch, sent, rx_notice, last_ch, recv_buffer,
                 AT_COMPonet_Station, app, history>>

client_parser == \/ Top \/ Wake \/ GetChar \/ ReadNothing \/ ResetNotice
                 \/ TakeNotice \/ HandLine

-----------------------------------------------------------------------------
(* The application's thread *)

\* Commands are done: ConnectServer or BLEADVSTART has succeeded.
SwitchOff ==
  /\ app = "commands"
  /\ AT_COMPonet_Station' = 0
  /\ app' = "data"
  /\ taken' = 0
  /\ UNCHANGED <<queue, ch, sent, rx_notice, parser, lines>>

\* The station Reset of the BLE set-up: commands again.
ResetBLE ==
  /\ app \in {"commands", "data"}
  /\ AT_COMPonet_Station' = 1
  /\ app' = "commands"
  /\ UNCHANGED <<queue, ch, sent, rx_notice, parser, history>>

\* POWER_REST: commands again, after AT+CIPCLOSE and a read.
PowerRest ==
  /\ app \in {"commands", "data"}
  /\ AT_COMPonet_Station' = 1
  /\ app' = "closing"
  /\ UNCHANGED <<queue, ch, sent, rx_notice, parser, history>>

\* rt_device_read takes what is there, up to the size of the buffer.
rt_device_read(size) ==
  /\ queue # << >>
  /\ queue' = SubSeq(queue, size + 1, Len(queue))
  /\ Cut

\* RegisterDevice, OneNet_Connect and OneNet_SUBSCRIBE read the UART themselves.
ReadData(size) ==
  /\ app = "data"
  /\ rt_device_read(size)
  /\ UNCHANGED <<ch, sent, rx_notice, ppc, last_ch, AT_COMPonet_Station, app>>

\* The read behind AT+CIPCLOSE, with the parser switched on.
ReadClosing(size) ==
  /\ app = "closing"
  /\ \/ rt_device_read(size)
     \/ queue = << >> /\ UNCHANGED <<queue, recv_buffer, history>>
  /\ app' = "commands"
  /\ UNCHANGED <<ch, sent, rx_notice, ppc, last_ch, AT_COMPonet_Station>>

GSM_thread ==
  \/ SwitchOff \/ ResetBLE \/ PowerRest
  \/ \E size \in Sizes : ReadData(size) \/ ReadClosing(size)

-----------------------------------------------------------------------------
Init ==
  /\ Device!Init
  /\ sent = "LF"
  /\ rx_notice = 0
  /\ ppc = "top"
  /\ last_ch = "none"
  /\ recv_buffer = "empty"
  /\ AT_COMPonet_Station = 1
  /\ app = "commands"
  /\ taken = 0
  /\ lines = 0

Interrupt == \E c \in Char : Receive(c)

Next == Interrupt \/ client_parser \/ GSM_thread

Spec == Init /\ [][Next]_vars

\* The parser comes to run between the characters and while the application's
\* thread sleeps; the modem goes on sending.  Nothing obliges the application.
FairSpec == Spec /\ SF_vars(client_parser) /\ WF_vars(Interrupt)

-----------------------------------------------------------------------------
(* Properties *)

TypeOK ==
  /\ queue \in Seq(Char)
  /\ Len(queue) <= Capacity
  /\ ch \in Char
  /\ sent \in Char
  /\ rx_notice \in 0 .. SemMod - 1
  /\ ppc \in {"top", "sleep", "read", "reset", "take", "blocked", "line"}
  /\ last_ch \in Char \cup {"none"}
  /\ recv_buffer \in {"empty", "whole", "spoilt"}
  /\ AT_COMPonet_Station \in {0, 1}
  /\ app \in {"commands", "data", "closing"}
  /\ taken \in 0 .. MaxLines
  /\ lines \in 0 .. MaxLines

\* A parser that is in at_recv_readline when the application switches it off goes
\* on to the end of a line.  Of the lines the modem sends then it takes at most one
\* from the application, and at most one more for each time that a read of the
\* application's, or an overflow, takes the end of its line away from it.
OneLineTaken == AT_COMPonet_Station = 0 => taken <= 1

\* The application's reads and an overflow spoil at most one line of the parser:
\* wherever they cut the stream, between CR and LF included, the second line the
\* parser ends after that is whole again.
SecondLineWhole == ppc = "line" /\ lines > 1 => recv_buffer = "whole"

\* A parser that is running does not let the FIFO fill.
KeepsUp == Len(queue) = Capacity => ppc \in {"sleep", "blocked"}

\* When the application goes over to commands for good, and the parser keeps up
\* with the modem while it runs, it goes on handing on whole lines, whatever line
\* or delay the switch found it in and whatever notices the resets threw away.
LinesComeThrough ==
  (<>[](app = "commands" /\ KeepsUp)) => []<>(ppc = "line" /\ recv_buffer = "whole")
=============================================================================
