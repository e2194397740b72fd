------------------------------ MODULE ATClient ------------------------------
(***************************************************************************)
(* The AT client of components/net/at: threads that send a command to the  *)
(* modem and wait for its response (at_obj_exec_cmd and                    *)
(* at_client_obj_wait_connect), and the parser thread that turns the lines *)
(* the modem sends into responses (client_parser).                         *)
(*                                                                         *)
(* The threads share struct at_client: the pointer client->resp to the     *)
(* response being collected, resp_status, and the semaphore resp_notice.   *)
(* The mutex client->lock serialises the callers; the parser never takes   *)
(* it.  A step is one access to the shared structure, so a caller may time *)
(* out, return and start the next command between any two steps of the     *)
(* parser.                                                                 *)
(*                                                                         *)
(* Characters are abstracted to lines, a line to its kind and the command  *)
(* it answers; every line is LineLen bytes long.  A command is abstracted  *)
(* to its dialog: the line_num the caller waits for and the answers the    *)
(* modem may give.                                                         *)
(***************************************************************************)
EXTENDS Integers, Sequences

CONSTANTS
  Tasks,        \* the threads that call the AT client
  NULL,         \* RT_NULL, and the owner of a free mutex
  Dialogs,      \* set of [line_num : Nat, answers : SUBSET Seq(LineKind)]
  Apis,         \* the entry points the threads call
  Unsolicited,  \* kinds of lines the modem sends on its own
  BufSize,      \* resp->buf_size, in bytes
  LineLen,      \* cur_recv_len of every line, in bytes
  MayTimeout,   \* whether rt_sem_take may give up before the answer is in
  CallerAbove,  \* whether the callers' priority is above the parser's
  MaxCmd,       \* bound: commands begun or probes sent
  MaxUnsol      \* bound: lines the modem sends on its own

\* "long" is a line that does not fit recv_buffer.
LineKind == {"data", "OK", "ERROR", "urc", "long"}
Line     == [kind : LineKind, cmd : Nat]
Dialog   == [line_num : Nat, answers : SUBSET Seq(LineKind)]
Command  == [cmd : Nat, answers : SUBSET Seq(LineKind)]
Api      == {"exec", "execnull", "wait"}

ASSUME NullAssumption    == NULL \notin Tasks
ASSUME DialogAssumption  == Dialogs \subseteq Dialog
ASSUME ApisAssumption    == Apis \subseteq Api
ASSUME UnsolAssumption   == Unsolicited \subseteq {"data", "urc", "long"}
ASSUME SizeAssumption    == BufSize \in Nat /\ LineLen \in Nat \ {0}
ASSUME ModeAssumption    == MayTimeout \in BOOLEAN /\ CallerAbove \in BOOLEAN
ASSUME BoundAssumption   == MaxCmd \in Nat /\ MaxUnsol \in Nat

VARIABLES
  lock,         \* client->lock: its owner or NULL
  resp,         \* client->resp: the task whose response object it points to
  resp_status,  \* client->resp_status
  resp_notice,  \* value of client->resp_notice
  ro,           \* the response object of each task
  pc, api, dlg, cmd, result,                    \* the callers
  ppc, line, resp_buf_len, line_counts,         \* client_parser
  AT_COMPonet_Station,                          \* the application's switch
  rx,           \* lines received and not yet read by the parser
  cmdq, reply,  \* the modem: commands to answer, lines of the answer to send
  ncmd, nunsol  \* counters for the bounds; ncmd also numbers commands

client  == <<lock, resp, resp_status, resp_notice>>
callers == <<pc, api, dlg, cmd, result>>
parser  == <<ppc, line, resp_buf_len, line_counts>>
modem   == <<rx, cmdq, reply, nunsol>>
misc    == <<AT_COMPonet_Station, ncmd>>
vars == <<lock, resp, resp_status, resp_notice, ro, pc, api, dlg, cmd, result,
          ppc, line, resp_buf_len, line_counts, AT_COMPonet_Station, rx, cmdq,
          reply, ncmd, nunsol>>

\* A response object: buf holds the strings of lines after gap zero bytes.
RespObject == [live : BOOLEAN, line_num : Nat, line_counts : Nat,
               gap : Nat, lines : Seq(Line)]

NewResp(n) == [live |-> TRUE, line_num |-> n, line_counts |-> 0,
               gap |-> 0, lines |-> << >>]

CallerPC == {"idle", "lock", "send", "zero", "wait", "wprobe", "wwait",
             "wcheck", "wdelete", "check", "exit", "unlock", "done"}
ParserPC == {"top", "read", "dispatch", "copy", "check", "store", "clear",
             "release", "reset", "null", "freed"}
Status   == {"OK", "ERROR", "TIMEOUT", "BUFF_FULL"}
Result   == {"none", "ok", "error", "timeout"}

Init ==
  /\ lock = NULL
  /\ resp = NULL
  /\ resp_status = "OK"
  /\ resp_notice = 0
  /\ ro = [t \in Tasks |-> [NewResp(0) EXCEPT !.live = FALSE]]
  /\ pc = [t \in Tasks |-> "idle"]
  /\ api = [t \in Tasks |-> "exec"]
  /\ dlg = [t \in Tasks |-> [line_num |-> 0, answers |-> {}]]
  /\ cmd = [t \in Tasks |-> 0]
  /\ result = [t \in Tasks |-> "none"]
  /\ ppc = "top"
  /\ line = [kind |-> "data", cmd |-> 0]
  /\ resp_buf_len = 0
  /\ line_counts = 0
  /\ AT_COMPonet_Station = 1
  /\ rx = << >>
  /\ cmdq = << >>
  /\ reply = << >>
  /\ ncmd = 0
  /\ nunsol = 0

-----------------------------------------------------------------------------
(* The callers *)

Goto(t, next) == pc' = [pc EXCEPT ![t] = next]

\* A thread creates the response object (at_create_resp) and enters the call.
\* The application switches the parser on before it sends AT commands.
Begin(t, a, d) ==
  /\ pc[t] = "idle"
  /\ AT_COMPonet_Station = 1
  /\ ncmd < MaxCmd
  /\ a = "wait" => d.line_num = 0
  /\ api' = [api EXCEPT ![t] = a]
  /\ dlg' = [dlg EXCEPT ![t] = d]
  /\ result' = [result EXCEPT ![t] = "none"]
  /\ ro' = IF a = "execnull" THEN ro ELSE [ro EXCEPT ![t] = NewResp(d.line_num)]
  /\ Goto(t, "lock")
  /\ UNCHANGED <<client, cmd, parser, modem, misc>>

\* rt_mutex_take; client->resp_status = AT_RESP_OK (exec only); client->resp = resp.
\* The first look of at_client_obj_wait_connect at the clock comes right after
\* start_time is set: its timeout has not passed then.
TakeLock(t) ==
  /\ pc[t] = "lock"
  /\ lock = NULL
  /\ lock' = t
  /\ resp_status' = IF api[t] = "wait" THEN resp_status ELSE "OK"
  /\ resp' = IF api[t] = "execnull" THEN NULL ELSE t
  /\ Goto(t, IF api[t] = "wait" THEN "wprobe" ELSE "send")
  /\ UNCHANGED <<resp_notice, ro, api, dlg, cmd, result, parser, modem, misc>>

\* The command, with its end mark, goes out to the modem.
Transmit(t) ==
  /\ ncmd' = ncmd + 1
  /\ cmd' = [cmd EXCEPT ![t] = ncmd + 1]
  /\ cmdq' = Append(cmdq, [cmd |-> ncmd + 1, answers |-> dlg[t].answers])

\* at_vprintfln
Send(t) ==
  /\ pc[t] = "send"
  /\ Transmit(t)
  /\ Goto(t, IF api[t] = "execnull" THEN "exit" ELSE "zero")
  /\ result' = [result EXCEPT ![t] = IF api[t] = "execnull" THEN "ok" ELSE @]
  /\ UNCHANGED <<client, ro, api, dlg, parser, AT_COMPonet_Station, rx, reply,
                 nunsol>>

\* resp->line_counts = 0, after the command has gone out
ZeroCounts(t) ==
  /\ pc[t] = "zero"
  /\ ro' = [ro EXCEPT ![t].line_counts = 0]
  /\ Goto(t, "wait")
  /\ UNCHANGED <<client, api, dlg, cmd, result, parser, modem, misc>>

\* Mutant: the result of rt_sem_take is not looked at.
TakeAnyway(t) ==
  /\ pc[t] \in {"wait", "wwait"}
  /\ resp_notice' = resp_notice - 1
  /\ Goto(t, IF pc[t] = "wait" THEN "check" ELSE "wdelete")
  /\ result' = [result EXCEPT ![t] = IF pc[t] = "wwait" THEN "ok" ELSE @]
  /\ UNCHANGED <<lock, resp, resp_status, ro, api, dlg, cmd, parser, modem,
                 misc>>

\* rt_sem_take(resp_notice, timeout) succeeds
TakeNotice(t) ==
  /\ pc[t] \in {"wait", "wwait"}
  /\ resp_notice > 0
  /\ resp_notice' = resp_notice - 1
  /\ Goto(t, IF pc[t] = "wait" THEN "check" ELSE "wdelete")
  /\ result' = [result EXCEPT ![t] = IF pc[t] = "wwait" THEN "ok" ELSE @]
  /\ UNCHANGED <<lock, resp, resp_status, ro, api, dlg, cmd, parser, modem,
                 misc>>

\* Mutant: a timeout leaves by the release of the mutex, past the reset of
\* client->resp.
TimeoutKeepsResp(t) ==
  /\ MayTimeout
  /\ pc[t] = "wait"
  /\ resp_notice = 0
  /\ resp_status' = "TIMEOUT"
  /\ result' = [result EXCEPT ![t] = "timeout"]
  /\ Goto(t, "unlock")
  /\ UNCHANGED <<lock, resp, resp_notice, ro, api, dlg, cmd, parser, modem,
                 misc>>

\* Mutant: a timeout goes on waiting.
TimeoutWaitsOn(t) ==
  /\ MayTimeout
  /\ pc[t] = "wait"
  /\ resp_notice = 0
  /\ resp_status' = "TIMEOUT"
  /\ UNCHANGED <<lock, resp, resp_notice, ro, callers, parser, modem, misc>>

\* rt_sem_take gives up in at_obj_exec_cmd
Timeout(t) ==
  /\ MayTimeout
  /\ pc[t] = "wait"
  /\ resp_notice = 0
  /\ resp_status' = "TIMEOUT"
  /\ result' = [result EXCEPT ![t] = "timeout"]
  /\ Goto(t, "exit")
  /\ UNCHANGED <<lock, resp, resp_notice, ro, api, dlg, cmd, parser, modem,
                 misc>>

\* if (client->resp_status != AT_RESP_OK) result = -RT_ERROR
CheckStatus(t) ==
  /\ pc[t] = "check"
  /\ result' = [result EXCEPT ![t] = IF resp_status = "OK" THEN "ok" ELSE "error"]
  /\ Goto(t, "exit")
  /\ UNCHANGED <<client, ro, api, dlg, cmd, parser, modem, misc>>

\* Mutant: client->resp is left to the parser when the call has failed.
ExitKeepsResp(t) ==
  /\ pc[t] = "exit"
  /\ resp' = IF result[t] = "ok" THEN NULL ELSE resp
  /\ Goto(t, "unlock")
  /\ UNCHANGED <<lock, resp_status, resp_notice, ro, api, dlg, cmd, result,
                 parser, modem, misc>>

\* client->resp = RT_NULL
Exit(t) ==
  /\ pc[t] = "exit"
  /\ resp' = NULL
  /\ Goto(t, "unlock")
  /\ UNCHANGED <<lock, resp_status, resp_notice, ro, api, dlg, cmd, result,
                 parser, modem, misc>>

\* rt_mutex_release; the caller may now read the response
Unlock(t) ==
  /\ pc[t] = "unlock"
  /\ lock' = NULL
  /\ Goto(t, "done")
  /\ UNCHANGED <<resp, resp_status, resp_notice, ro, api, dlg, cmd, result,
                 parser, modem, misc>>

\* at_delete_resp by the caller, who is done with the response
Return(t) ==
  /\ pc[t] = "done"
  /\ ro' = [ro EXCEPT ![t].live = FALSE]
  /\ Goto(t, "idle")
  /\ UNCHANGED <<client, api, dlg, cmd, result, parser, modem, misc>>

\* at_client_obj_wait_connect, one turn: resp->line_counts = 0 and "AT\r\n"
Probe(t) ==
  /\ pc[t] = "wprobe"
  /\ ro' = [ro EXCEPT ![t].line_counts = 0]
  /\ Transmit(t)
  /\ Goto(t, "wwait")
  /\ UNCHANGED <<client, api, dlg, result, parser, AT_COMPonet_Station, rx,
                 reply, nunsol>>

\* rt_sem_take gives up in at_client_obj_wait_connect: continue
ProbeTimeout(t) ==
  /\ MayTimeout
  /\ pc[t] = "wwait"
  /\ resp_notice = 0
  /\ Goto(t, "wcheck")
  /\ UNCHANGED <<client, ro, api, dlg, cmd, result, parser, modem, misc>>

\* rt_tick_get() - start_time > timeout, or one more turn
ProbeAgain(t) ==
  /\ pc[t] = "wcheck"
  /\ \/ /\ ncmd < MaxCmd
        /\ Goto(t, "wprobe")
        /\ UNCHANGED result
     \/ /\ Goto(t, "wdelete")
        /\ result' = [result EXCEPT ![t] = "timeout"]
  /\ UNCHANGED <<client, ro, api, dlg, cmd, parser, modem, misc>>

\* at_delete_resp(resp), before client->resp is cleared
ProbeDelete(t) ==
  /\ pc[t] = "wdelete"
  /\ ro' = [ro EXCEPT ![t].live = FALSE]
  /\ Goto(t, "exit")
  /\ UNCHANGED <<client, api, dlg, cmd, result, parser, modem, misc>>

-----------------------------------------------------------------------------
(* client_parser *)

\* if (AT_COMPonet_Station == 0) sleep and look again
Top ==
  /\ ppc = "top"
  /\ AT_COMPonet_Station = 1
  /\ ppc' = "read"
  /\ UNCHANGED <<client, ro, callers, line, resp_buf_len, line_counts, modem,
                 misc>>

\* at_recv_readline: a line longer than recv_buffer is -RT_EFULL and dropped
ReadLine ==
  /\ ppc = "read"
  /\ rx # << >>
  /\ line' = Head(rx)
  /\ rx' = Tail(rx)
  /\ ppc' = IF Head(rx).kind = "long" THEN "top" ELSE "dispatch"
  /\ UNCHANGED <<client, ro, callers, resp_buf_len, line_counts, cmdq, reply,
                 nunsol, misc>>

\* URC lines go to their function, other lines to client->resp if there is one
Dispatch ==
  /\ ppc = "dispatch"
  /\ ppc' = IF line.kind # "urc" /\ resp # NULL THEN "copy" ELSE "top"
  /\ UNCHANGED <<client, ro, callers, line, resp_buf_len, line_counts, modem,
                 misc>>

\* client->resp may be dereferenced
Valid == resp # NULL /\ ro[resp].live

\* memcpy of the line into buf at resp_buf_len; the first one makes the gap
AddLine(r) ==
  [r EXCEPT !.lines = Append(@, line),
            !.gap = IF r.lines = << >> THEN resp_buf_len ELSE @]

\* Copy the line behind the ones before it, if it still fits
CopyLine ==
  /\ ppc = "copy"
  /\ Valid
  /\ IF resp_buf_len + LineLen < BufSize
       THEN /\ ro' = [ro EXCEPT ![resp] = AddLine(@)]
            /\ resp_buf_len' = resp_buf_len + LineLen
            /\ line_counts' = line_counts + 1
            /\ UNCHANGED resp_status
       ELSE /\ resp_status' = "BUFF_FULL"
            /\ UNCHANGED <<ro, resp_buf_len, line_counts>>
  /\ ppc' = "check"
  /\ UNCHANGED <<lock, resp, resp_notice, callers, line, modem, misc>>

\* Mutant: one line too few is enough.
EndsEarly(n) == \/ line.kind = "OK" /\ n = 0
                \/ line.kind # "ERROR" /\ n # 0 /\ line_counts + 1 = n

\* What the line means for a response that waits for n lines
EndsOK(n)  == \/ line.kind = "OK" /\ n = 0
              \/ line.kind # "ERROR" /\ n # 0 /\ line_counts = n

\* Mutant: client->resp is cleared before its line_counts is stored.
ClearThenStore ==
  /\ ppc = "check"
  /\ IF line.kind = "ERROR" \/ (Valid /\ EndsOK(ro[resp].line_num))
       THEN /\ resp_status' = IF line.kind = "ERROR" THEN "ERROR" ELSE "OK"
            /\ resp' = NULL
            /\ ppc' = "store"
       ELSE /\ ppc' = "top"
            /\ UNCHANGED <<resp, resp_status>>
  /\ UNCHANGED <<lock, resp_notice, ro, callers, line, resp_buf_len,
                 line_counts, modem, misc>>

\* Check the response result.  An ERROR line is recognised without looking at
\* client->resp.
CheckLine ==
  /\ ppc = "check"
  /\ \/ /\ line.kind = "ERROR"
        /\ resp_status' = "ERROR"
        /\ ppc' = "store"
     \/ /\ line.kind # "ERROR"
        /\ Valid
        /\ IF EndsOK(ro[resp].line_num)
             THEN resp_status' = "OK" /\ ppc' = "store"
             ELSE ppc' = "top" /\ UNCHANGED resp_status
  /\ UNCHANGED <<lock, resp, resp_notice, ro, callers, line, resp_buf_len,
                 line_counts, modem, misc>>

\* client->resp->line_counts = line_counts
StoreCounts ==
  /\ ppc = "store"
  /\ Valid
  /\ ro' = [ro EXCEPT ![resp].line_counts = line_counts]
  /\ ppc' = "clear"
  /\ UNCHANGED <<client, callers, line, resp_buf_len, line_counts, modem, misc>>

\* Mutant: the parser goes on collecting for a response it has completed.
KeepResp ==
  /\ ppc = "clear"
  /\ ppc' = "release"
  /\ UNCHANGED <<client, ro, callers, line, resp_buf_len, line_counts, modem,
                 misc>>

\* client->resp = RT_NULL
ClearResp ==
  /\ ppc = "clear"
  /\ resp' = NULL
  /\ ppc' = "release"
  /\ UNCHANGED <<lock, resp_status, resp_notice, ro, callers, line,
                 resp_buf_len, line_counts, modem, misc>>

\* Mutant: the waiting caller is not told.
NoRelease ==
  /\ ppc = "release"
  /\ ppc' = "reset"
  /\ UNCHANGED <<client, ro, callers, line, resp_buf_len, line_counts, modem,
                 misc>>

\* rt_sem_release(client->resp_notice)
ReleaseNotice ==
  /\ ppc = "release"
  /\ resp_notice' = resp_notice + 1
  /\ ppc' = "reset"
  /\ UNCHANGED <<lock, resp, resp_status, ro, callers, line, resp_buf_len,
                 line_counts, modem, misc>>

\* Mutant: line_counts is not reset.
ResetLenOnly ==
  /\ ppc = "reset"
  /\ resp_buf_len' = 0
  /\ ppc' = "top"
  /\ UNCHANGED <<client, ro, callers, line, line_counts, modem, misc>>

\* resp_buf_len = 0, line_counts = 0
ResetLocals ==
  /\ ppc = "reset"
  /\ resp_buf_len' = 0
  /\ line_counts' = 0
  /\ ppc' = "top"
  /\ UNCHANGED <<client, ro, callers, line, modem, misc>>

\* An access through client->resp when it is NULL or its object is freed is
\* undefined behaviour; the parser is taken to stop there.
Fault ==
  /\ \/ ppc \in {"copy", "store"}
     \/ ppc = "check" /\ line.kind # "ERROR"
  /\ ~Valid
  /\ ppc' = IF resp = NULL THEN "null" ELSE "freed"
  /\ UNCHANGED <<client, ro, callers, line, resp_buf_len, line_counts, modem,
                 misc>>

-----------------------------------------------------------------------------
(* The modem and the application around the client *)

\* The modem works on one command at a time and answers all it gets.
Answer ==
  /\ cmdq # << >>
  /\ reply = << >>
  /\ \E a \in Head(cmdq).answers :
       reply' = [i \in 1 .. Len(a) |-> [kind |-> a[i], cmd |-> Head(cmdq).cmd]]
  /\ cmdq' = Tail(cmdq)
  /\ UNCHANGED <<client, ro, callers, parser, rx, nunsol, misc>>

\* The next line of its answer arrives.
Emit ==
  /\ reply # << >>
  /\ rx' = Append(rx, Head(reply))
  /\ reply' = Tail(reply)
  /\ UNCHANGED <<client, ro, callers, parser, cmdq, nunsol, misc>>

\* A line nobody asked for arrives.
EmitUnsolicited ==
  /\ nunsol < MaxUnsol
  /\ nunsol' = nunsol + 1
  /\ \E k \in Unsolicited : rx' = Append(rx, [kind |-> k, cmd |-> 0])
  /\ UNCHANGED <<client, ro, callers, parser, cmdq, reply, misc>>

\* The application puts the parser to sleep and wakes it, between its commands.
SetStation ==
  /\ \A t \in Tasks : pc[t] = "idle"
  /\ AT_COMPonet_Station' = 1 - AT_COMPonet_Station
  /\ UNCHANGED <<client, ro, callers, parser, modem, ncmd>>

-----------------------------------------------------------------------------
CallerStep(t) ==
  \/ Send(t) \/ ZeroCounts(t) \/ TakeNotice(t) \/ Timeout(t) \/ CheckStatus(t)
  \/ Exit(t) \/ Unlock(t) \/ Return(t) \/ Probe(t) \/ ProbeTimeout(t)
  \/ ProbeAgain(t) \/ ProbeDelete(t)

\* The thread waits: for its next command, the mutex, a notice or a delay.
Asleep(t) == \/ pc[t] \in {"idle", "done"}
             \/ pc[t] = "lock" /\ lock # NULL
             \/ pc[t] \in {"wait", "wwait"} /\ resp_notice = 0

\* A parser below its callers (GSM_thread has priority 8, the parser 9) runs
\* only while they all wait; what wakes a caller then is a timer or a notice.
client_parser ==
  /\ CallerAbove => \A t \in Tasks : Asleep(t)
  /\ \/ Top \/ ReadLine \/ Dispatch \/ CopyLine \/ CheckLine \/ StoreCounts
     \/ ClearResp \/ ReleaseNotice \/ ResetLocals \/ Fault

Next ==
  \/ \E t \in Tasks, a \in Apis, d \in Dialogs : Begin(t, a, d)
  \/ \E t \in Tasks : TakeLock(t)
  \/ \E t \in Tasks : CallerStep(t)
  \/ client_parser
  \/ Answer \/ Emit \/ EmitUnsolicited \/ SetStation

Spec == Init /\ [][Next]_vars

\* Threads run when they can; the mutex is FIFO, so a waiter gets it in the end;
\* the modem answers.  Nobody is obliged to call, to speak up unasked or to
\* touch the switch.
FairSpec ==
  /\ Spec
  /\ \A t \in Tasks : /\ SF_vars(TakeLock(t))
                      /\ WF_vars(CallerStep(t))
  /\ WF_vars(client_parser)
  /\ WF_vars(Answer)
  /\ WF_vars(Emit)
-----------------------------------------------------------------------------
(* Properties *)

TypeOK ==
  /\ lock \in Tasks \cup {NULL}
  /\ resp \in Tasks \cup {NULL}
  /\ resp_status \in Status
  /\ resp_notice \in Nat
  /\ ro \in [Tasks -> RespObject]
  /\ pc \in [Tasks -> CallerPC]
  /\ api \in [Tasks -> Api]
  /\ dlg \in [Tasks -> Dialog]
  /\ cmd \in [Tasks -> Nat]
  /\ result \in [Tasks -> Result]
  /\ ppc \in ParserPC
  /\ line \in Line
  /\ resp_buf_len \in Nat
  /\ line_counts \in Nat
  /\ AT_COMPonet_Station \in {0, 1}
  /\ rx \in Seq(Line)
  /\ cmdq \in Seq(Command)
  /\ reply \in Seq(Line)
  /\ ncmd \in Nat
  /\ nunsol \in Nat

\* The places at which a caller holds client->lock.
Locked == {"send", "zero", "wait", "wprobe", "wwait", "wcheck", "wdelete",
           "check", "exit", "unlock"}

\* Only one caller is between rt_mutex_take and rt_mutex_release, and
\* client->resp, which the parser reads without the mutex, is either RT_NULL or
\* the response of that very caller, who has not yet reached its last
\* client->resp = RT_NULL.
RespUnderLock ==
  /\ \A t \in Tasks : pc[t] \in Locked <=> lock = t
  /\ resp # NULL => lock = resp /\ pc[resp] # "unlock"

\* A response object that at_obj_exec_cmd published is not freed while the
\* parser can reach it, however the timeout and the parser interleave; the only
\* freed object client->resp can point to is the one
\* at_client_obj_wait_connect deletes before it clears the pointer.
RespIsLive ==
  resp # NULL => \/ ro[resp].live
                 \/ api[resp] = "wait" /\ pc[resp] = "exit"

\* A notice left behind by a timeout is handed from command to command for
\* ever, but notices do not pile up: resp_notice never exceeds 3.
NoticeBound == resp_notice <= 3

\* The parser never follows client->resp when it is RT_NULL or freed.
NoFault == ppc \notin {"null", "freed"}

\* Between commands there is no notice, and no half-collected response in the
\* parser, that the next command could mistake for its own.
CleanBetweenCalls ==
  lock = NULL =>
    /\ resp_notice = 0
    /\ ppc \notin {"copy", "check", "store", "clear", "release"}
    /\ ppc # "reset" => resp_buf_len = 0 /\ line_counts = 0

\* Every call of at_obj_exec_cmd or at_client_obj_wait_connect comes back to
\* its caller.
CallReturns ==
  \A t \in Tasks : pc[t] = "lock" ~> pc[t] = "done"

\* What at_resp_get_line and at_resp_get_line_by_kw find: they step over
\* line_counts strings from the start of buf, and each zero byte of the gap is
\* an empty string.
Readable(r) ==
  LET n == r.line_counts - r.gap IN
  IF n <= 0 THEN << >>
            ELSE SubSeq(r.lines, 1, IF n < Len(r.lines) THEN n ELSE Len(r.lines))

\* A call of at_obj_exec_cmd has returned 0 and its caller looks at the response.
Succeeded(t) == pc[t] = "done" /\ api[t] = "exec" /\ result[t] = "ok"

\* "the response data will auto return when received 'OK' or 'ERROR'"
\* (line_num = 0): a call that returned 0 has received an OK line.
SuccessHasOK ==
  \A t \in Tasks : Succeeded(t) /\ ro[t].line_num = 0 =>
    \E i \in 1 .. Len(ro[t].lines) : ro[t].lines[i].kind = "OK"
=============================================================================
