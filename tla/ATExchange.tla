----------------------------- MODULE ATExchange -----------------------------
(***************************************************************************)
(* The AT client where commands and answers cannot get out of step: no     *)
(* timeout fires before the answer is in, the callers' priority is above   *)
(* the parser's as in the application, every caller waits for its answer,  *)
(* and the modem's answers are the ones the callers wait for.  There the   *)
(* AT client implements ATChannel.                                         *)
(***************************************************************************)
EXTENDS ATClient

\* The kinds of lines an answer is made of, and the ones the parser keeps away
\* from client->resp.
AnswerKind == {"data", "OK", "ERROR"}
OtherKind  == {"urc", "long"}

\* Line i of answer a is the last one that a response with line_num n takes.
Ends(n, a, i) == \/ a[i] = "ERROR"
                 \/ n = 0 /\ a[i] = "OK"
                 \/ n # 0 /\ i = n

\* The answers to dialog d end where its caller stops waiting, not before and
\* not after, and fit the response buffer.
WellFormed(d) ==
  \A a \in d.answers :
    /\ a \in Seq(AnswerKind)
    /\ Len(a) # 0
    /\ Len(a) * LineLen < BufSize
    /\ \A i \in 1 .. Len(a) : Ends(d.line_num, a, i) <=> i = Len(a)

ASSUME NoTimeoutAssumption == ~MayTimeout
ASSUME AboveAssumption     == CallerAbove
ASSUME WaitsAssumption     == Apis \subseteq {"exec", "wait"}
ASSUME KnownAssumption     == Unsolicited \subseteq OtherKind
ASSUME AnswersAssumption   == \A d \in Dialogs : WellFormed(d)

-----------------------------------------------------------------------------
(* The refinement of ATChannel *)

\* The call of each thread as its user sees it: sent from at_vprintfln on,
\* answered once the mutex is released.
Phase(t) == CASE pc[t] = "idle"             -> "idle"
              [] pc[t] \in {"lock", "send"} -> "asked"
              [] pc[t] = "done"             -> "answered"
              [] OTHER                      -> "sent"

Channel == INSTANCE ATChannel WITH
  phase   <- [t \in Tasks |-> Phase(t)],
  dialog  <- [t \in Tasks |-> dlg[t].answers],
  number  <- cmd,
  outcome <- [t \in Tasks |-> IF pc[t] = "done" THEN result[t] ELSE "none"],
  answer  <- [t \in Tasks |-> IF pc[t] = "done" THEN Readable(ro[t]) ELSE << >>],
  sent    <- ncmd

\* When no timeout fires before the answer, and the callers' priority is above
\* the parser's as in the application, at_obj_exec_cmd and client_parser
\* together implement ATChannel: every call returns the answer to its own
\* command, all of it and nothing else.
ImplementsChannel == Channel!Spec
=============================================================================
