--------------------------- MODULE ATClientProofs ---------------------------
(***************************************************************************)
(* Proofs about ATClient, for any set of callers, any dialogs and any      *)
(* bounds: type correctness, the ownership of client->resp, the life of    *)
(* the object it points to, and the bound on resp_notice.                  *)
(***************************************************************************)
EXTENDS ATClient, TLAPS

-----------------------------------------------------------------------------
(* Type correctness *)

\* The fields of a response object keep their types under the assignments the
\* code makes to them.
LEMMA RespObjectFields ==
  ASSUME NEW r \in RespObject
  PROVE  /\ [r EXCEPT !.live = FALSE] \in RespObject
         /\ \A n \in Nat : [r EXCEPT !.line_counts = n] \in RespObject
         /\ line \in Line /\ resp_buf_len \in Nat => AddLine(r) \in RespObject
<1>1. [r EXCEPT !.live = FALSE] \in RespObject
  BY DEF RespObject
<1>2. ASSUME NEW n \in Nat PROVE [r EXCEPT !.line_counts = n] \in RespObject
  BY DEF RespObject
<1>3. ASSUME line \in Line, resp_buf_len \in Nat
      PROVE  AddLine(r) \in RespObject
  <2>1. Append(r.lines, line) \in Seq(Line)
    BY <1>3 DEF RespObject
  <2>2. QED
    BY <1>3, <2>1 DEF RespObject, AddLine
<1>4. QED
  BY <1>1, <1>2, <1>3

LEMMA NewRespType == \A n \in Nat : NewResp(n) \in RespObject
BY DEF NewResp, RespObject

LEMMA TypeInit == Init => TypeOK
<1> SUFFICES ASSUME Init PROVE TypeOK
  OBVIOUS
<1>1. [NewResp(0) EXCEPT !.live = FALSE] \in RespObject
  BY NewRespType, RespObjectFields
<1>2. [line_num |-> 0, answers |-> {}] \in Dialog
  BY DEF Dialog
<1>3. QED
  BY <1>1, <1>2 DEF Init, TypeOK, Status, CallerPC, Api, Result, ParserPC, Line,
                   LineKind

\* Every step of a caller preserves the types.
LEMMA TypeCaller ==
  ASSUME TypeOK, NEW t \in Tasks, TakeLock(t) \/ CallerStep(t)
  PROVE  TypeOK'
<1>0. USE DEF CallerPC, Goto, client, callers, parser, modem, misc
<1>1. CASE TakeLock(t)
  BY <1>1 DEF TypeOK, TakeLock, Status
<1>2. ASSUME Transmit(t) PROVE /\ ncmd' \in Nat
                               /\ cmd' \in [Tasks -> Nat]
                               /\ cmdq' \in Seq(Command)
  BY <1>2 DEF TypeOK, Transmit, Command, Dialog
<1>3. CASE Send(t)
  BY <1>2, <1>3 DEF TypeOK, Send, Result
<1>4. CASE ZeroCounts(t)
  <2>1. ro' \in [Tasks -> RespObject]
    BY <1>4, RespObjectFields DEF TypeOK, ZeroCounts
  <2>2. QED
    BY <1>4, <2>1 DEF TypeOK, ZeroCounts
<1>5. CASE TakeNotice(t)
  BY <1>5 DEF TypeOK, TakeNotice, Result
<1>6. CASE Timeout(t)
  BY <1>6 DEF TypeOK, Timeout, Result, Status
<1>7. CASE CheckStatus(t)
  BY <1>7 DEF TypeOK, CheckStatus, Result
<1>8. CASE Exit(t)
  BY <1>8 DEF TypeOK, Exit
<1>9. CASE Unlock(t)
  BY <1>9 DEF TypeOK, Unlock
<1>10. CASE Return(t)
  <2>1. ro' \in [Tasks -> RespObject]
    BY <1>10, RespObjectFields DEF TypeOK, Return
  <2>2. QED
    BY <1>10, <2>1 DEF TypeOK, Return
<1>11. CASE Probe(t)
  <2>1. ro' \in [Tasks -> RespObject]
    BY <1>11, RespObjectFields DEF TypeOK, Probe
  <2>2. QED
    BY <1>2, <1>11, <2>1 DEF TypeOK, Probe
<1>12. CASE ProbeTimeout(t)
  BY <1>12 DEF TypeOK, ProbeTimeout
<1>13. CASE ProbeAgain(t)
  BY <1>13 DEF TypeOK, ProbeAgain, Result
<1>14. CASE ProbeDelete(t)
  <2>1. ro' \in [Tasks -> RespObject]
    BY <1>14, RespObjectFields DEF TypeOK, ProbeDelete
  <2>2. QED
    BY <1>14, <2>1 DEF TypeOK, ProbeDelete
<1>15. QED
  BY <1>1, <1>3, <1>4, <1>5, <1>6, <1>7, <1>8, <1>9, <1>10, <1>11, <1>12,
     <1>13, <1>14 DEF CallerStep

\* Every step of the parser preserves the types.
LEMMA TypeParser ==
  ASSUME TypeOK, client_parser
  PROVE  TypeOK'
<1>0. USE DEF ParserPC, client, callers, modem, misc
<1>1. CASE Top
  BY <1>1 DEF TypeOK, Top
<1>2. CASE ReadLine
  BY <1>2 DEF TypeOK, ReadLine
<1>3. CASE Dispatch
  BY <1>3 DEF TypeOK, Dispatch
<1>4. CASE CopyLine
  <2>1. CASE resp_buf_len + LineLen < BufSize
    <3>1. resp \in Tasks
      BY <1>4 DEF TypeOK, CopyLine, Valid
    <3>2. AddLine(ro[resp]) \in RespObject
      BY <3>1, RespObjectFields DEF TypeOK, AddLine
    <3>3. ro' \in [Tasks -> RespObject]
      BY <1>4, <2>1, <3>1, <3>2 DEF TypeOK, CopyLine
    <3>4. resp_buf_len' \in Nat /\ line_counts' \in Nat
      BY <1>4, <2>1, SizeAssumption DEF TypeOK, CopyLine
    <3>5. UNCHANGED <<lock, resp, resp_status, resp_notice, callers, line, modem,
                      misc>> /\ ppc' = "check"
      BY <1>4, <2>1 DEF CopyLine
    <3>6. QED
      BY <3>3, <3>4, <3>5 DEF TypeOK
  <2>2. CASE ~(resp_buf_len + LineLen < BufSize)
    BY <1>4, <2>2 DEF TypeOK, CopyLine, Status
  <2>3. QED
    BY <2>1, <2>2
<1>5. CASE CheckLine
  BY <1>5 DEF TypeOK, CheckLine, Status
<1>6. CASE StoreCounts
  <2>1. ro' \in [Tasks -> RespObject]
    BY <1>6, RespObjectFields DEF TypeOK, StoreCounts, Valid
  <2>2. QED
    BY <1>6, <2>1 DEF TypeOK, StoreCounts
<1>7. CASE ClearResp
  BY <1>7 DEF TypeOK, ClearResp
<1>8. CASE ReleaseNotice
  BY <1>8 DEF TypeOK, ReleaseNotice
<1>9. CASE ResetLocals
  BY <1>9 DEF TypeOK, ResetLocals
<1>10. CASE Fault
  BY <1>10 DEF TypeOK, Fault
<1>11. QED
  BY <1>1, <1>2, <1>3, <1>4, <1>5, <1>6, <1>7, <1>8, <1>9, <1>10
     DEF client_parser

LEMMA TypeStep == TypeOK /\ [Next]_vars => TypeOK'
<1> SUFFICES ASSUME TypeOK, [Next]_vars PROVE TypeOK'
  OBVIOUS
<1>0. USE DEF client, callers, parser, modem, misc
<1>1. ASSUME NEW t \in Tasks, NEW a \in Apis, NEW d \in Dialogs, Begin(t, a, d)
      PROVE  TypeOK'
  <2>1. d \in Dialog /\ d.line_num \in Nat
    BY DialogAssumption DEF Dialog
  <2>2. ro' \in [Tasks -> RespObject]
    BY <1>1, <2>1, NewRespType DEF Begin, TypeOK
  <2>3. QED
    BY <1>1, <2>1, <2>2, ApisAssumption
       DEF Begin, TypeOK, Goto, CallerPC, Result
<1>2. ASSUME NEW t \in Tasks, TakeLock(t) \/ CallerStep(t) PROVE TypeOK'
  BY <1>2, TypeCaller
<1>3. CASE client_parser
  BY <1>3, TypeParser
<1>4. CASE Answer
  <2>1. Head(cmdq) \in Command
    BY <1>4 DEF Answer, TypeOK
  <2>2. PICK a \in Head(cmdq).answers :
          reply' = [i \in 1 .. Len(a) |-> [kind |-> a[i], cmd |-> Head(cmdq).cmd]]
    BY <1>4 DEF Answer
  <2>3. a \in Seq(LineKind)
    BY <2>1 DEF Command
  <2>4. reply' \in Seq(Line)
    BY <2>1, <2>2, <2>3 DEF Line, Command
  <2>5. QED
    BY <1>4, <2>4 DEF Answer, TypeOK
<1>5. CASE Emit
  BY <1>5 DEF Emit, TypeOK
<1>6. CASE EmitUnsolicited
  <2>1. PICK k \in Unsolicited : rx' = Append(rx, [kind |-> k, cmd |-> 0])
    BY <1>6 DEF EmitUnsolicited
  <2>2. [kind |-> k, cmd |-> 0] \in Line
    BY UnsolAssumption DEF Line, LineKind
  <2>3. QED
    BY <1>6, <2>1, <2>2 DEF EmitUnsolicited, TypeOK
<1>7. CASE SetStation
  BY <1>7 DEF SetStation, TypeOK
<1>8. CASE UNCHANGED vars
  BY <1>8 DEF vars, TypeOK
<1>9. QED
  BY <1>1, <1>2, <1>3, <1>4, <1>5, <1>6, <1>7, <1>8 DEF Next

\* Every reachable state of struct at_client, the callers, the parser and the
\* line has its type.
THEOREM TypeCorrect == Spec => []TypeOK
<1>1. QED
  BY TypeInit, TypeStep, PTL DEF Spec

-----------------------------------------------------------------------------
(* Ownership of client->resp *)

LEMMA OwnerStep == TypeOK /\ RespUnderLock /\ [Next]_vars => RespUnderLock'
<1> SUFFICES ASSUME TypeOK, RespUnderLock, [Next]_vars PROVE RespUnderLock'
  OBVIOUS
<1>0. USE NullAssumption DEF RespUnderLock, Locked, TypeOK, Goto,
          client, callers, parser, modem, misc
<1>1. ASSUME NEW t \in Tasks, NEW a \in Apis, NEW d \in Dialogs, Begin(t, a, d)
      PROVE  RespUnderLock'
  BY <1>1 DEF Begin
<1>2. ASSUME NEW t \in Tasks, TakeLock(t) PROVE RespUnderLock'
  BY <1>2 DEF TakeLock
<1>3. ASSUME NEW t \in Tasks, CallerStep(t) PROVE RespUnderLock'
  <2>1. CASE Send(t)
    BY <2>1 DEF Send
  <2>2. CASE ZeroCounts(t)
    BY <2>2 DEF ZeroCounts
  <2>3. CASE TakeNotice(t)
    BY <2>3 DEF TakeNotice
  <2>4. CASE Timeout(t)
    BY <2>4 DEF Timeout
  <2>5. CASE CheckStatus(t)
    BY <2>5 DEF CheckStatus
  <2>6. CASE Exit(t)
    BY <2>6 DEF Exit
  <2>7. CASE Unlock(t)
    BY <2>7 DEF Unlock
  <2>8. CASE Return(t)
    BY <2>8 DEF Return
  <2>9. CASE Probe(t)
    BY <2>9 DEF Probe
  <2>10. CASE ProbeTimeout(t)
    BY <2>10 DEF ProbeTimeout
  <2>11. CASE ProbeAgain(t)
    BY <2>11 DEF ProbeAgain
  <2>12. CASE ProbeDelete(t)
    BY <2>12 DEF ProbeDelete
  <2>13. QED
    BY <1>3, <2>1, <2>2, <2>3, <2>4, <2>5, <2>6, <2>7, <2>8, <2>9, <2>10,
       <2>11, <2>12 DEF CallerStep
<1>4. CASE client_parser
  <2>1. UNCHANGED <<lock, pc>> /\ (resp' = resp \/ resp' = NULL)
    BY <1>4 DEF client_parser, Top, ReadLine, Dispatch, CopyLine, CheckLine,
                StoreCounts, ClearResp, ReleaseNotice, ResetLocals, Fault
  <2>2. QED
    BY <2>1
<1>5. CASE Answer \/ Emit \/ EmitUnsolicited \/ SetStation \/ UNCHANGED vars
  BY <1>5 DEF Answer, Emit, EmitUnsolicited, SetStation, vars
<1>6. QED
  BY <1>1, <1>2, <1>3, <1>4, <1>5 DEF Next

\* client->resp, which the parser reads without client->lock, is RT_NULL or the
\* response of the one caller that holds the lock: at most one command is out,
\* and no caller leaves its response behind.
THEOREM RespOwned == Spec => []RespUnderLock
<1>1. Init => RespUnderLock
  BY NullAssumption DEF Init, RespUnderLock, Locked
<1>2. QED
  BY <1>1, TypeCorrect, OwnerStep, PTL DEF Spec

-----------------------------------------------------------------------------
(* The life of a response object *)

\* RespIsLive says nothing of a caller whose response is not published.  Its
\* induction needs where each entry point may be and how long its object lives:
\* at_obj_exec_cmd's until Return, at_client_obj_wait_connect's until
\* ProbeDelete.
LifeOf(t) ==
  /\ pc[t] \in {"wprobe", "wwait", "wcheck", "wdelete"} => api[t] = "wait"
  /\ pc[t] \in {"send", "zero", "wait", "check"} => api[t] # "wait"
  /\ pc[t] \in {"zero", "wait", "check"} => api[t] = "exec"
  /\ pc[t] # "idle" /\ api[t] = "exec" => ro[t].live
  /\ pc[t] \in {"lock", "wprobe", "wwait", "wcheck", "wdelete"} /\ api[t] = "wait"
       => ro[t].live

LifeInv ==
  /\ \A t \in Tasks : LifeOf(t)
  /\ resp # NULL => api[resp] # "execnull"

\* No step frees a response object except Return and ProbeDelete.
LEMMA LifeStep ==
  TypeOK /\ RespUnderLock /\ LifeInv /\ [Next]_vars => LifeInv'
<1> SUFFICES ASSUME TypeOK, RespUnderLock, LifeInv, [Next]_vars PROVE LifeInv'
  OBVIOUS
<1>0. USE NullAssumption DEF LifeInv, LifeOf, TypeOK, Goto, client, callers,
          parser, modem, misc, RespObject, Api, CallerPC
<1>1. ASSUME NEW t \in Tasks, NEW a \in Apis, NEW d \in Dialogs, Begin(t, a, d)
      PROVE  LifeInv'
  <2>1. a \in Api /\ d.line_num \in Nat
    BY DialogAssumption, ApisAssumption DEF Dialog
  <2>2. resp # t
    BY <1>1 DEF RespUnderLock, Locked, Begin
  <2>3. QED
    BY <1>1, <2>1, <2>2 DEF Begin, NewResp
<1>2. ASSUME NEW t \in Tasks, TakeLock(t) PROVE LifeInv'
  BY <1>2 DEF TakeLock
<1>3. ASSUME NEW t \in Tasks, CallerStep(t) PROVE LifeInv'
  <2>1. CASE Send(t)
    BY <2>1 DEF Send
  <2>2. CASE ZeroCounts(t)
    BY <2>2 DEF ZeroCounts
  <2>3. CASE TakeNotice(t)
    BY <2>3 DEF TakeNotice
  <2>4. CASE Timeout(t)
    BY <2>4 DEF Timeout
  <2>5. CASE CheckStatus(t)
    BY <2>5 DEF CheckStatus
  <2>6. CASE Exit(t)
    BY <2>6 DEF Exit
  <2>7. CASE Unlock(t)
    BY <2>7 DEF Unlock
  <2>8. CASE Return(t)
    BY <2>8 DEF Return
  <2>9. CASE Probe(t)
    BY <2>9 DEF Probe
  <2>10. CASE ProbeTimeout(t)
    BY <2>10 DEF ProbeTimeout
  <2>11. CASE ProbeAgain(t)
    BY <2>11 DEF ProbeAgain
  <2>12. CASE ProbeDelete(t)
    BY <2>12 DEF ProbeDelete
  <2>13. QED
    BY <1>3, <2>1, <2>2, <2>3, <2>4, <2>5, <2>6, <2>7, <2>8, <2>9, <2>10,
       <2>11, <2>12 DEF CallerStep
<1>4. CASE client_parser
  <2>1. /\ UNCHANGED <<pc, api>>
        /\ resp' = resp \/ resp' = NULL
    BY <1>4 DEF client_parser, Top, ReadLine, Dispatch, CopyLine, CheckLine,
                StoreCounts, ClearResp, ReleaseNotice, ResetLocals, Fault
  <2>2. ASSUME NEW t \in Tasks PROVE ro'[t].live = ro[t].live
    <3>1. CASE CopyLine
      <4>1. AddLine(ro[t]).live = ro[t].live
        BY DEF AddLine
      <4>2. ro'[t] = ro[t] \/ ro'[t] = AddLine(ro[t])
        BY <3>1 DEF CopyLine, Valid
      <4>3. QED
        BY <4>1, <4>2
    <3>2. CASE StoreCounts
      BY <3>2 DEF StoreCounts, Valid
    <3>3. CASE ~CopyLine /\ ~StoreCounts
      BY <1>4, <3>3 DEF client_parser, Top, ReadLine, Dispatch, CheckLine,
                        ClearResp, ReleaseNotice, ResetLocals, Fault
    <3>4. QED
      BY <3>1, <3>2, <3>3
  <2>3. QED
    BY <2>1, <2>2
<1>5. CASE Answer \/ Emit \/ EmitUnsolicited \/ SetStation \/ UNCHANGED vars
  BY <1>5 DEF Answer, Emit, EmitUnsolicited, SetStation, vars
<1>6. QED
  BY <1>1, <1>2, <1>3, <1>4, <1>5 DEF Next

\* However a timeout and the parser interleave, a response that
\* at_obj_exec_cmd published is not freed while client->resp points to it.
THEOREM RespNotFreed == Spec => []RespIsLive
<1>1. Init => LifeInv
  BY NullAssumption DEF Init, LifeInv, LifeOf
<1>2. TypeOK /\ RespUnderLock /\ LifeInv => RespIsLive
  BY NullAssumption DEF TypeOK, RespUnderLock, Locked, LifeInv, LifeOf, RespIsLive,
     CallerPC, Api
<1>3. QED
  BY <1>1, <1>2, TypeCorrect, RespOwned, LifeStep, PTL DEF Spec

-----------------------------------------------------------------------------
(* The bound on resp_notice *)

\* A notice the parser will give: one if it is at work on a response, which it
\* will clear; otherwise one if it is about to release, and one if there is a
\* response it may still complete.
DueAt(p, r) ==
  IF p \in {"copy", "check", "store", "clear"} THEN 1
  ELSE (IF p = "release" THEN 1 ELSE 0) + (IF r # NULL THEN 1 ELSE 0)

Due == DueAt(ppc, resp)

\* The caller will still take a notice, or give up with none there.
WillTake(t) == pc[t] \in {"send", "zero", "wait", "wprobe", "wwait"}
               /\ api[t] # "execnull"

\* A published response adds one notice, and its caller does not leave before
\* it has taken one or seen none.
NoticeInv ==
  /\ resp_notice + Due <= 3
  /\ (\A t \in Tasks : ~WillTake(t)) => resp_notice + Due <= 2

LEMMA NoticeStep ==
  TypeOK /\ RespUnderLock /\ LifeInv /\ NoticeInv /\ [Next]_vars => NoticeInv'
<1> SUFFICES ASSUME TypeOK, RespUnderLock, LifeInv, NoticeInv, [Next]_vars
             PROVE  NoticeInv'
  OBVIOUS
<1>0. USE NullAssumption DEF TypeOK, NoticeInv, Due, DueAt, WillTake, Goto, client,
          callers, parser, modem, misc
<1>1. ASSUME NEW t \in Tasks, NEW a \in Apis, NEW d \in Dialogs, Begin(t, a, d)
      PROVE  NoticeInv'
  BY <1>1 DEF Begin
<1>2. ASSUME NEW t \in Tasks, TakeLock(t) PROVE NoticeInv'
  <2>1. \A u \in Tasks : ~WillTake(u)
    BY <1>2 DEF TakeLock, RespUnderLock, Locked
  <2>2. QED
    BY <1>2, <2>1 DEF TakeLock
<1>3. ASSUME NEW t \in Tasks, CallerStep(t) PROVE NoticeInv'
  <2>0. USE DEF LifeInv, LifeOf
  <2>1. CASE Send(t)
    BY <2>1 DEF Send
  <2>2. CASE ZeroCounts(t)
    BY <2>2 DEF ZeroCounts
  <2>3. CASE TakeNotice(t)
    BY <2>3 DEF TakeNotice
  <2>4. CASE Timeout(t)
    BY <2>4 DEF Timeout
  <2>5. CASE CheckStatus(t)
    BY <2>5 DEF CheckStatus
  <2>6. CASE Exit(t)
    BY <2>6 DEF Exit
  <2>7. CASE Unlock(t)
    BY <2>7 DEF Unlock
  <2>8. CASE Return(t)
    BY <2>8 DEF Return
  <2>9. CASE Probe(t)
    BY <2>9 DEF Probe
  <2>10. CASE ProbeTimeout(t)
    BY <2>10 DEF ProbeTimeout
  <2>11. CASE ProbeAgain(t)
    BY <2>11 DEF ProbeAgain
  <2>12. CASE ProbeDelete(t)
    BY <2>12 DEF ProbeDelete
  <2>13. QED
    BY <1>3, <2>1, <2>2, <2>3, <2>4, <2>5, <2>6, <2>7, <2>8, <2>9, <2>10,
       <2>11, <2>12 DEF CallerStep
<1>4. CASE client_parser
  <2>1. UNCHANGED <<pc, api>>
    BY <1>4 DEF client_parser, Top, ReadLine, Dispatch, CopyLine, CheckLine,
                StoreCounts, ClearResp, ReleaseNotice, ResetLocals, Fault
  <2>2. resp_notice' \in Nat /\ resp_notice' + Due' <= resp_notice + Due
    <3>1. CASE Top \/ ReadLine \/ ResetLocals
      BY <3>1 DEF Top, ReadLine, ResetLocals
    <3>2. CASE Dispatch \/ CheckLine \/ Fault
      BY <3>2 DEF Dispatch, CheckLine, Fault
    <3>3. CASE CopyLine \/ StoreCounts
      BY <3>3 DEF CopyLine, StoreCounts
    <3>4. CASE ClearResp
      BY <3>4 DEF ClearResp
    <3>5. CASE ReleaseNotice
      BY <3>5 DEF ReleaseNotice
    <3>6. QED
      BY <1>4, <3>1, <3>2, <3>3, <3>4, <3>5 DEF client_parser
  <2>3. \A t \in Tasks : WillTake(t)' <=> WillTake(t)
    BY <2>1
  <2>4. Due \in 0 .. 2 /\ Due' \in 0 .. 2
    OBVIOUS
  <2>5. resp_notice \in Nat /\ resp_notice + Due <= 3
    OBVIOUS
  <2>6. ASSUME \A t \in Tasks : ~WillTake(t)' PROVE resp_notice + Due <= 2
    BY <2>3, <2>6
  <2>7. resp_notice' + Due' <= 3
    <3> HIDE DEF DueAt, TypeOK, NoticeInv, WillTake
    <3>1. QED
      BY <2>2, <2>4, <2>5
  <2>8. ASSUME \A t \in Tasks : ~WillTake(t)' PROVE resp_notice' + Due' <= 2
    <3>1. resp_notice + Due <= 2
      BY <2>6, <2>8
    <3> HIDE DEF DueAt, TypeOK, NoticeInv, WillTake
    <3>2. QED
      BY <2>2, <2>4, <2>5, <3>1
  <2>9. QED
    <3> HIDE DEF DueAt, TypeOK, WillTake
    <3>1. QED
      BY <2>7, <2>8
<1>5. CASE Answer \/ Emit \/ EmitUnsolicited \/ SetStation \/ UNCHANGED vars
  BY <1>5 DEF Answer, Emit, EmitUnsolicited, SetStation, vars
<1>6. QED
  BY <1>1, <1>2, <1>3, <1>4, <1>5 DEF Next

\* Notices that timeouts leave behind do not accumulate in resp_notice, whatever
\* the number of callers and commands.
THEOREM NoticesBounded == Spec => []NoticeBound
<1>1. Init => LifeInv
  BY NullAssumption DEF Init, LifeInv, LifeOf
<1>2. Init => NoticeInv
  BY DEF Init, NoticeInv, Due, DueAt
<1>3. TypeOK /\ NoticeInv => NoticeBound
  BY DEF TypeOK, NoticeInv, Due, DueAt, NoticeBound
<1>4. QED
  BY <1>1, <1>2, <1>3, TypeCorrect, RespOwned, LifeStep, NoticeStep, PTL DEF Spec
=============================================================================
