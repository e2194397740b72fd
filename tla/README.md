# A verification of the ESP32 AT/MQTT client

The repository is an RT-Thread 3.0.3 tree for an STM32F10x board that drives an
ESP32 module over a UART. Its own code is the AT client of
`components/net/at`, an lwIP MQTT client rewritten to talk through that UART, and
the application under `bsp/stm32f10x/applications` that brings the device from
power-up to a subscription at the OneNet MQTT server. The rest (kernel, drivers,
file systems, network stacks, `Protocol/`, `SI3/`, `Libraries/`) is third-party.
Paths below are relative to `src/rt-thread-3.0.3/`.

Run a check with `tlc -config X.cfg M`, a proof with `tlapm M.tla`.

## 1. Inventory

| component | state | operations | interacts through |
|---|---|---|---|
| receive path, `components/drivers/serial/serial.c` | `buffer`, `put_index`, `get_index`, `is_full` of the FIFO | `rt_hw_serial_isr`, `_serial_int_rx` | the interrupt writes the FIFO and calls `rx_indicate`; threads read it |
| AT client, `components/net/at/src/at_client.c` | `client->lock`, `resp`, `resp_status`, `rx_notice`, `resp_notice`; the parser's `resp_buf_len`, `line_counts`; the response object | `at_create_resp`, `at_obj_exec_cmd`, `at_client_obj_wait_connect`, `client_parser`, `at_client_getchar`, `at_resp_get_line`, ... | callers and the parser thread share `struct at_client`; the application switches the parser with `AT_COMPonet_Station` |
| application thread, `gsm_comm.c` | `ConnectStation`, `TryNum`, `ConnectOneNetStep`, `TyeNum`, `HeartOverTime` | `GSM_thread_entry`, `GSM_ConnectingLoop`, `EST32ConnectOneNetLoop` | AT commands through the AT client; HTTP and MQTT by reading the same UART |
| BLE set-up, `APP_BLE.c` | `BLE_Station`, `TryNum` | `APP_ESP32_Config_loop` | AT commands, `AT_COMPonet_Station` |
| OneNet, `APP_OneNet.c` | `OneNetParam` | `OneNetParaInit`, `RegisterDevice`, `OneNet_Connect`, `OneNet_SUBSCRIBE` | `AT+CIPSEND` and data on the UART |
| MQTT, `components/net/lwip-2.0.2/src/apps/mqtt/mqtt.c` | `conn_state`, request list, packet id, ring buffer | `mqtt_client_connect`, `mqtt_sub_unsub`, `mqtt_message_received`, `mqtt_publish` | called by OneNet; its TCP callbacks and its cyclic timer are never registered |
| AT sockets, `components/net/at/at_socket/at_socket.c` | `sockets[]`: `magic`, `type`, `state`, `recv_notice`, `recvpkt_list`, event counters | `at_socket`, `at_connect`, `at_recvfrom`, `at_sendto`, `at_closesocket`, `at_shutdown`, the callbacks `at_recv_notice_cb` and `at_closed_notice_cb` | threads own sockets; the parser thread runs the callbacks; the driver (`at_dev_ops`) sends AT commands. The application does not use it |
| kernel mutexes, `src/ipc.c`, `thread.c`, `scheduler.c` | `owner`, `hold`, `value`, `original_priority`, the list of waiting threads; each thread's `stat`, `current_priority`, `error`, timer | `rt_mutex_take`, `rt_mutex_release`, `rt_thread_timeout`, `rt_thread_sleep`, `rt_schedule` | serialise the callers of the AT client and the users of a receive list |
| AT server, `at_server.c`, `at_base_cmd.c`; shell, `at_cli.c` | parser state, echo mode | command parsing | not enabled, or interactive only |
| TLV frame receiver, `gsm_comm.c` 111-283, 872-1182 | `GSM_TransparentRX`, `HeartOverTime`, `Systempara` | `RX_Loop`, `ReceiveDataHandle`, `TLV_*` | never runs: `GSMInit` is not called |

What is hard here:

- **Concurrency.** The interrupt against the reader; any number of callers against
  the parser, which never takes the mutex; timeouts against late answers.
- **Two readers of one UART.** The parser and the application read the same FIFO;
  `AT_COMPonet_Station` is to keep them apart, and the parser looks at it only
  between two lines.
- **Callbacks without a lock.** The parser's callbacks use a socket its thread may be
  freeing; a delay of fixed length is to keep them apart.
- **Priorities.** A mutex lends the urgency of its waiters to its owner, while they
  time out, are handed the mutex, and come and go.
- **Retries.** Seven connection stations, seven BLE stations, a registration and
  two MQTT steps, each with its own counter and its own way to give up, over a
  connection that may come up late, survive a close or be lost.
- **Bytes taken for messages.** The modem's own text is read as an MQTT packet.

What makes each part correct: the FIFO is a queue; a call of the AT client returns
the answer to its own command, and always returns; the parser never follows a dead
pointer; two readers of the UART cost each other at most a line at a time; a socket receives
the bytes of its own connection in order and is woken for them; a mutex has one
owner, reports who it is, and gives back the priority it lent; the application's
stations, switch, server and MQTT step agree, and it gets online when the world
allows it.

`PROJECT.json` lists the hazards at their lines, with the properties that would
catch them; a hazard that lies outside what the properties assume has a note that
says so.

## 2. Modules

| module | models | kind |
|---|---|---|
| `ByteQueue` | what a serial device promises its reader | abstract |
| `SerialRx` | interrupt, FIFO, `rx_notice`, `at_client_getchar` | detailed |
| `SerialRxProofs` | theorems about `SerialRx` | proofs |
| `ATChannel` | what the AT client promises its callers | abstract |
| `ATClient` | callers, `client_parser`, modem | detailed |
| `MCATClient` | small instances of `ATClient` | model checking |
| `ATClientProofs` | theorems about `ATClient` | proofs |
| `ATExchange` | `ATClient` where no timeout comes early, and how it implements `ATChannel` | refinement |
| `MCATExchange` | a small instance of `ATExchange` | model checking |
| `ATExchangeProofs` | theorems about `ATExchange` | proofs |
| `GsmSession` | the application thread from power-up to subscription | detailed |
| `GsmSessionProofs` | theorems about `GsmSession` | proofs |
| `UartShare` | `ByteQueue` with its two readers, `client_parser` and the application | composition |
| `UartShareProofs` | theorems about `UartShare` | proofs |
| `ATSocket` | threads with sockets, the parser's callbacks, the modem | detailed |
| `ATSocketProofs` | theorems about the sockets of `ATSocket` | proofs |
| `ATStreamProofs` | theorems about the bytes that pass through `ATSocket` | proofs |
| `RtMutex` | mutexes, priorities, thread timers, the scheduler | detailed |
| `MCRtMutex` | three threads of different priorities | model checking |
| `RtMutexProofs` | theorems about `RtMutex` | proofs |

**SerialRx.** The variables are the fields of `struct rt_serial_rx_fifo`, the value
of `rx_notice` and the reader's place in `at_client_getchar`. One turn of the
interrupt's `getc` loop is one action; the last turn calls `rx_indicate`
(`at_client_rx_ind`), which releases the semaphore. `GSMRXCallBack`, called for each
character, only keeps a debugging copy in this build. Each kernel call of the reader
(`rt_device_read`, `rt_sem_control`, `rt_sem_take`) masks interrupts, so it is one
step, and an interrupt can come between any two.

**ATClient.** A step is one access to the shared structure. The callers' places
`lock`, `send`, `zero`, `wait`, `check`, `exit`, `unlock` are the lines of
`at_obj_exec_cmd` in order, and those that begin with `w` are
`at_client_obj_wait_connect`; the parser's places are the lines of `client_parser`.
Characters are abstracted to lines and a command to its *dialog*: the `line_num` the
caller waits for and the answers the modem may give. A line carries the number of
the command it answers, which the code does not see and the properties use. A line
that does not fit the response buffer sets `AT_RESP_BUFF_FULL`; a line longer than
`recv_buffer` is dropped. Lines that follow a gap left by a stale `resp_buf_len`
are found by `Readable` as `at_resp_get_line` finds them. `FAIL` lines are `ERROR`
lines. When the parser follows `client->resp` and it is null or freed, the behaviour
is undefined: the model records it (`Fault`) and the parser stops there; nothing is
claimed about what such an access does to other memory. `CallerAbove` says
whether the callers' priority is above the parser's, as it is for `GSM_thread`
(8 against 9): then the parser runs only while every caller waits. The first look at
the clock in `at_client_obj_wait_connect` is taken not to time out, since
`start_time` is read just before.

**ATExchange.** Adds no step to `ATClient`: it states the circumstances in which
commands and answers cannot get out of step, as assumptions on its constants, and the
mapping to `ATChannel`. The mapping shows a call as its user sees it: sent from
`at_vprintfln` on, answered once the mutex is released.

**GsmSession.** One action for each part of the loop's turn: a station of
`GSM_ConnectingLoop`, a station of `APP_ESP32_Config_loop` (`Reset` falls through to
`BLEINIT`), `RegisterDevice` with what the thread does with its result, a step of
`EST32ConnectOneNetLoop`. An AT command succeeds or fails, which is what `ATClient`
says about it. The `ConnectServer` station sends `AT+CIPSTART` twice: the first try
looks for an answer with `OK` (`Connect`), the second for one with `CONNECTED`
(`ConnectAgain`). `CIPSTART` says what the modem may have done and answered: it has
opened the connection; it has one already, opens no second one and says `ALREADY
CONNECTED`; or the answer is lost or is the late one of an earlier command, and then
the connection that was asked for may still come up (`asked`, `LateLink`). The code
takes every answer with the keyword for success, and so does the model. The history
variable `opened` remembers whether the modem opened the connection in answer to the
last try; `RightServer` and `ConnectBeforeSubscribe` are about that case, since after
another success the modem may hold any connection, that to the other server included,
or none, and the thread goes on with it. The modem holds one connection; it may stay although
`AT+CIPCLOSE` was sent, survive a restart of the processor, and break. Only the HTTP
server sends the `device_id` that makes `RegisterDevice` succeed. What the MQTT steps read is abstracted to its first
bytes, and `mqtt_message_received` does with them what the code does.
`HeartOverTimeCheck` and `ReceiveDataHandle` run at the end of each turn and change
nothing, because `GSMInit` is never called.

**UartShare.** Composes the queue that `SerialRx` implements (`INSTANCE ByteQueue`)
with `at_recv_readline` on one side and the application's reads on the other.
Characters are the head and the text of a line, CR and LF. `recv_buffer` is
abstracted to whether it holds a line from its head on (`whole`) or has lost
something (`spoilt`). The application is in one of three modes: `commands` (it
waits for answers the parser collects), `data` (the switch is off and it reads the
UART itself) and `closing` (`POWER_REST`, which switches the parser on and then
reads the UART once more). The reset of `rx_notice` in `at_client_getchar` is kept.
`taken` counts the lines whose head the parser has taken since it was switched off
and since characters last went elsewhere: when the application reads a line end away,
the unfinished `at_recv_readline` goes on into the next line, so each such read can
cost the application one line more. A line longer than `recv_buffer` and the URC
table, which this application leaves empty, are not modelled.

**ATSocket.** One action for each part of a socket call between two waits: a call of
the driver is split where the driver waits for the modem's answer. Bytes are pairs
of a connection and a position, so that the properties can tell whose they are; a
packet of the receive list is the sequence of its unread bytes, which abstracts
`bfsz_index`. A turn of the loop in `at_recvpkt_get` is one step (`at_recvpkt_get`, and
`GetMore` for the turns after the first); `want` is what is still asked for
(`len - content_pos`), and `recv_lock` is held from the first turn to the last, so that
`at_recv_notice_cb` waits (`Locked`). The driver is external and modelled from how `at_socket.c` uses it:
answers and reports reach the parser in the order the modem writes them;
the driver's `at_closesocket` fails only when there is no connection, and `at_connect` leaves none
when it fails. `at_setsockopt` only chooses between a timed and an untimed wait. The
delay of `at_closesocket` may be over at any time, in the middle of a callback too,
since the code only sleeps for 100 ms. `at_sendto` changes no state except by connecting a UDP socket,
which is `UdpConnect`. When a callback goes on with a socket that has been freed the
behaviour is undefined; the model records which callback it was (`fault`). The threads run
above the parser (`CallerAbove`), as the application's does. Each thread has one
socket at a time and uses its own; memory does not run out.

**RtMutex.** Every kernel call masks interrupts while it works, so it is one step; a
call that suspends its thread returns in a second one (`Return`), once the thread is
running again. Thread timers may expire at any time. The ready lists are the set of
ready threads, and `rt_schedule` picks any of the most urgent; the code picks the
first of their list. `ReleaseFree` does not reschedule, as in the code. `MaxHeld`
says how many mutexes a thread holds at a time: the AT client and the sockets never
hold two.

## 3. Runs

| run | module | result | what it shows |
|---|---|---|---|
| `SerialRx_reader` | SerialRx | pass | index types, a full FIFO is not empty, refinement of `ByteQueue`; the reader always gets its next character while the modem keeps sending |
| `ATClient_timeouts` | MCATClient | pass | no freed response in reach of the parser; at most 3 notices |
| `ATClient_contention` | MCATClient | pass | `client->resp` belongs to the holder of the mutex; every call returns |
| `ATClient_channel` | MCATExchange | pass | without early timeouts: no fault, nothing left between calls, refinement of `ATChannel` |
| `ATClient_stale_notice` | MCATClient | violation | success without an answer |
| `GsmSession_session` | GsmSession | pass | the switch fits the stations through all failures; over a connection the modem opened for it the thread talks to the right server and connects before it subscribes; the device gets online after the failures |
| `GsmSession_lost` | GsmSession | violation | a lost connection is never noticed |
| `GsmSession_accepted` | GsmSession | violation | success of `OneNet_Connect` without a CONNACK |
| `UartShare_switch` | UartShare | pass | a switch-off costs the application one line at most, and one more for each line end that its reads or an overflow take from the parser; they cost the parser one line at most; whole lines come through again |
| `ATSocket_stream` | ATSocket | pass | bytes of the own connection, in order; the data callback never meets a freed socket; no lost wake-up; `at_recvfrom` returns |
| `RtMutex_prio` | MCRtMutex | pass | with `RT_IPC_FLAG_PRIO` waiting lists, timers, results and inherited priorities are consistent; a hand-over goes to the most urgent |
| `RtMutex_fifo` | MCRtMutex | violation | with `RT_IPC_FLAG_FIFO`, as the AT client and the sockets create their mutexes, a thread waits for a less urgent owner after a hand-over |

**Bounds.** `SerialRx`: a FIFO of 4 characters wraps and overflows within a burst
of 2; the semaphore wraps at 4. `ATClient`: `MaxCmd` commands and `MaxUnsol`
unsolicited lines. Five commands let a stale notice be handed on through several
calls and let the semaphore reach its bound; two callers with one command bound
cover the contention for the mutex, since a probe and a command together exceed the
bound only by the callers that are already inside. `BufSize` of 10 and lines of 2
hold four lines, so that the stale `resp_buf_len` of abandoned responses also fills
the buffer. `GsmSession` uses the values of the build (5 tries, 256 values of a
byte) and needs no other bound: its whole state space is finite.
`UartShare`: a FIFO of 5 holds a whole line and the head of the next, so reads of 2
and of 5 cut a line at every place, and it overflows; the history counters stop at 2,
which is all the properties ask for. `ATSocket`: one slot, three sockets and three
connections, so that a slot is used again while reports about its last connection
are on their way; packets of up to 2 bytes and requests of up to 2, with 3 bytes to a
connection, give requests that end inside, at the end of and beyond a packet; the
semaphore wraps at 3. More slots and threads are left to the proofs. `RtMutex`: three
priorities are the fewest for an inversion, and a mutex with two threads waiting is
handed over while one of them times out; a mutex is taken up to twice by its owner.
`ATClient` and `ATSocket` runs switch the deadlock check off, since the commands and
connections of a bounded run come to an end; the others keep it on.

**Fairness.** Threads run when they can: weak fairness of each thread's steps.
`rt_mutex_take` queues its waiters first in, first out, hence strong fairness of
taking the mutex. The reader of `SerialRx` has strong fairness because a character
takes much longer to arrive than an interrupt takes to run. The modem answers each
command (`Answer`, `Emit`), which is assumed only where no timeout can be; where it
can, `Timeout` alone brings the caller back, as the mutant of `CallReturns` shows.
`TalkingSpec` also assumes a modem that never falls silent. `GsmSession` assumes
only that the loop goes on; `GetsOnline` assumes that from some time on commands
succeed and servers leave an answer that is accepted, and excepts a thread that counts
on a connection the modem does not have, as after a loss or a stray success. In `UartShare` and `ATSocket`
the parser has strong fairness: it runs whenever the more urgent threads sleep, which
they do between their calls. In `UartShare` the modem goes on sending, nothing
obliges the application, and `LinesComeThrough` says itself what else it needs: that
the application stays with commands and the running parser keeps the FIFO from
filling. In `ATSocket` a thread goes on with a call it has begun and the modem
answers a command it has got; nothing obliges a thread to begin a call, or the peer
to send or to close. `RtMutex` has no liveness property.

## 4. Proofs

All theorems hold for every value of the constants, under the `ASSUME`s of the
modules (a FIFO of at least two characters, `NULL` not a thread, dialogs of the
declared shape, `MaxTryNum + 1` below the size of the counter). The proofs of the
sockets also assume threads above the parser, and `ATExchange` has the assumptions
given below.

- **SerialRxProofs.** `TypeOK /\ FullIsNotEmpty` is inductive: the overflow branch
  moves `get_index` past `put_index`, and a read clears `is_full`. The refinement
  `RxRefines` rests on lemmas about the ring: `SlotPut` (put_index is the slot
  behind the unread characters), `SlotSucc` (moving get_index renumbers them),
  `RingStore` and `RingRead` (a store appends, a read takes the head), with the
  overflow as a read followed by a store.
- **ATClientProofs.** `TypeCorrect`; `RespOwned` from `TypeOK /\ RespUnderLock`,
  which is inductive. `RespNotFreed` needs to know where each object is live
  (`LifeInv`). `NoticesBounded` needs a count of the notices still to come:
  `NoticeInv` relates `resp_notice` to whether the parser is about to release one
  and whether a caller is about to take one.
- **ATExchangeProofs.** The assumptions: no timeout fires before the answer is in
  (a modem that answers in time; what the others do is the subject of
  `ATClient_timeouts` and of the violation `ATClient_stale_notice`); the callers are
  above the parser, as `GSM_thread` is; every caller passes a response or probes with
  `at_client_obj_wait_connect`; lines nobody asked for are URCs or longer than
  `recv_buffer`; and an answer ends where its caller stops waiting and fits its buffer
  (`WellFormed`). Any number of callers, dialogs and lines is allowed. `ExchangeInv`
  follows one exchange through its stages. The command is out and the modem has not
  begun (`Asked`); of the answer the parser has read k lines, the lines up to j are in
  `rx`, and the rest is to come (`Answering`); or the parser has the whole answer and
  the caller has, or is about to have, its notice (`Answered`). Lines of other kinds
  come between those of the answer, so a function f says at which place of `rx` each
  line is; reading a line moves the places up by one. Where the parser is decides how
  far `resp_buf_len`, `line_counts` and the response have come (`Gathering`). Outside
  an exchange nothing is on its way (`Silent`) and the parser has nothing collected, or
  is about to reset it (`Fresh`). `ZeroCounts`, which comes after the command was sent,
  is harmless here only because the parser cannot run before the caller waits.
  `ParserNeverFaults` and `NothingLeft` hold with probes among the calls;
  `ChannelImplemented` is about `at_obj_exec_cmd` alone, since a probe's result is not
  an answer. `Begin`, `Send`, `Unlock` and `Return` show as the four steps of
  `ATChannel`, everything else as a stutter.
- **GsmSessionProofs.** The four invariants of `GsmSession_session` together with
  facts about the stations in between (`SessionInv`): the switch while the BLE set-up
  is at work, the MQTT step while a station is not yet connected, and that nothing is
  left that may connect late once the modem has opened the connection: it has one
  connection at a time, and an answered `AT+CIPSTART` replaces an earlier one.
- **UartShareProofs.** `SecondLineWhole` needs to know that the parser is in step with
  the modem once it has ended a line and nothing was taken since (`InStep`), which in
  turn needs to know that the FIFO holds a piece of the modem's stream (`Stream`).
  An overflow and a read of the application keep `Stream`, since both take from the
  front, and begin the count of lines anew. `OneLineTaken` needs to know how far the
  parser is in the line it has begun (`Unfinished`): with the switch off a head it takes
  is the first, because the line it follows must end first, and `Top` then stops.
- **ATSocketProofs.** For any number of threads and slots, with the threads above the
  parser. `SocketInv` adds who owns a slot (`Owned`), that an answer is taken before
  the parser begins a callback (`AnswerFirst`). A wake-up cannot be lost by the
  wrap of the semaphore because a thread that waits has no notice when the parser
  runs.
- **ATStreamProofs.** `StreamInv` says where each byte of a connection is: the first
  ones were read by its thread, the next are the packets of its list in order, then the
  packet of the callback under way, then the reports on the UART in order, up to the
  last byte sent. The packets of a list and the reports of the UART are put in a row
  by a function that gives the position before each of them (`Chain`, `Pipe`), so no
  recursive concatenation is needed and each step changes it at one end: the modem
  appends a report, the parser takes one and appends a packet, a turn of
  `at_recvpkt_get` takes from the first packet. Over TCP the row begins with byte 1,
  which needs the callback to be set before the first report is handled; it is, because
  the thread takes the answer to its connect and sets it before the parser runs again.
  A UDP socket connected by its first use may lose a beginning. That a slot can be used
  again needs what is true when it is freed: nothing about it comes behind the answer
  to a close (`CloseLast`) or a report that the peer has closed (`ClosedLast`), so a
  slot that nobody has is quiet (`SlotInv`). `DataCallbackCorrect` adds `DataInv`: while
  the parser is in the data callback, the socket it works on is one whose connection
  it reports about, held by a thread (`Holds`) that cannot free it before the driver
  has answered; the answer is behind the data on the UART, so the parser has left the
  callback before it hands the answer over. The callback for a closed connection has
  no such protection: it stores `CLOSED` itself, whereupon the thread frees the socket
  without asking the driver, and may do so before the callback releases the semaphore.
- **RtMutexProofs.** `WaitInv` (types, the state of a mutex and of a thread, sound
  waiting lists, timers and results) is inductive for any threads, mutexes, priorities
  and both flags. `PriorityInv`, for threads that hold one mutex at a time, relates
  `original_priority` of a mutex to the priority its owner began with. `QueueInv`, for
  `RT_IPC_FLAG_PRIO`, says that waiting lists are sorted; this is why a hand-over
  needs no raise, and it is what `RT_IPC_FLAG_FIFO` lacks: there `Inherits` does not
  hold after a hand-over, as the run `RtMutex_fifo` shows. `InheritsCorrect` is
  therefore about `RT_IPC_FLAG_PRIO` only, which the mutexes of the AT client and of
  the sockets do not have.

Only model-checked: the liveness properties (`ReaderKeepsUp`, `CallReturns`,
`GetsOnline`, `RecvReturns`, `LinesComeThrough`) and the four violations. Liveness,
`ENABLED` and induction over data are out of the prover's reach; the last is why the rows of packets and lines are described by functions and not
by recursion.

## 5. Not modelled

DMA and polling modes, transmission and device registration in `serial.c` (the AT
client does not use the first two, and depends on no state of the others);
initialisation of the AT client; matching of URC prefixes; argument parsing
(`at_resp_parse_line_args`, a library `vsscanf`); the lengths of timeouts; the texts
of commands; memory that runs out, event counters, `at_bind`, `at_poll` and name
resolution in `at_socket.c`; deletion of kernel objects, signals, events, mailboxes
and message queues of the kernel; `OneNet_ChangeServer`, `PHS8_Reboot` and the TLV
receiver, which never run; the voice and booth threads, compiled out in
`application.c`; third-party code. The repository carries the whole RT-Thread tree
with its drivers, file systems and network stacks, of which the modem path uses the
few files above.

Some things the model shows about the code are kept as hazards, and no property
excludes them: a wake-up lost to the reset of `rx_notice` when the modem then falls
silent (`at_client.c:438`), a connection to the other server behind `ALREADY
CONNECTED` (`gsm_comm.c:489`), a closed callback that releases a deleted semaphore
(`at_socket.c:514`), a null pointer the parser follows after a timeout
(`at_client.c:680`), lines of a timed-out command that count for the next one
(`at_client.c:722`, `290`), a line count zeroed after a fast answer
(`at_client.c:316`), a response freed before its pointer is cleared
(`at_client.c:396`), and reports that come before the callbacks are set for a thread
below the parser (`at_socket.c:554`). The properties near them (`ReaderKeepsUp`,
`RightServer`, `DataMeetsSocket`, `NoFault`, `CleanBetweenCalls`, `ImplementsChannel`,
`RespIsLive`, `ReceivesInOrder`) hold under assumptions that exclude them, or say what
holds in spite of them.

## 6. Plan

1. `MqttClient`: request list, packet identifiers, ring buffer indices,
   `mqtt_sub_unsub` with its unassigned `r`, `mqtt_publish`, `mqtt_message_received`
   in full.
2. `ATClientInit`: `at_client_init` and `at_client_para_init` with failures in
   between and interrupts from the moment `rx_indicate` is set.
3. `ATSocket` with memory that runs out, and with several threads on one socket.
4. `ATServer`, the TLV receiver `RX_Loop` with `ReceiveDataHandle`, and the voice
   ring.
5. Proofs: what `ATSocket` still promises when a thread is not above the parser, and
   which part of `ExchangeInv` survives a timeout that fires early.
