-------------------------- MODULE ATExchangeProofs --------------------------
(***************************************************************************)
(* Proofs about ATExchange, for any set of callers, any dialogs whose      *)
(* answers are well formed, any buffer they fit and any bounds: the parser *)
(* never follows a bad client->resp, nothing is left between two calls,    *)
(* and the AT client implements ATChannel.                                 *)
(***************************************************************************)
EXTENDS ATExchange, ATClientProofs

-----------------------------------------------------------------------------
(* The inductive invariant *)

\* Line i of answer a to command n.
AnswerLine(a, n, i) == [kind |-> a[i], cmd |-> n]

\* s consists of the lines of answer a to command n after the first k, up to j.
Lines(s, a, n, k, j) ==
  /\ Len(s) = j - k
  /\ \A i \in 1 .. j - k : s[i] = AnswerLine(a, n, k + i)

\* What the last line of an answer makes of resp_status and of the result.
Verdict(a) == IF a[Len(a)] = "ERROR" THEN "ERROR" ELSE "OK"
Outcome(a) == IF a[Len(a)] = "ERROR" THEN "error" ELSE "ok"

\* No command is out and no line of an answer is on its way.
Quiet  == \A p \in 1 .. Len(rx) : rx[p].kind \in OtherKind
Silent == cmdq = << >> /\ reply = << >> /\ Quiet

\* The parser's counters stand at c collected lines.
Counted(c) == line_counts = c /\ resp_buf_len = c * LineLen

\* The parser has no line of an answer in hand; it has collected nothing, or is
\* about to forget what it has.
Resting == \/ ppc \in {"top", "read"}
           \/ ppc = "dispatch" /\ line.kind = "urc"
Fresh   == ppc = "reset" \/ (Resting /\ Counted(0))

\* The response of thread t holds the first c lines of answer a.
Collected(t, a, c) ==
  /\ ro[t].gap = 0
  /\ ro[t].line_num = dlg[t].line_num
  /\ Lines(ro[t].lines, a, cmd[t], 0, c)

\* The response of thread t is as at_create_resp made it.
Blank(t) ==
  ro[t].gap = 0 /\ ro[t].line_num = dlg[t].line_num /\ ro[t].lines = << >>

Whole(t, a) == Collected(t, a, Len(a)) /\ ro[t].line_counts = Len(a)

\* The command of t is out and the modem has not begun to answer.
Asked(t) ==
  /\ cmdq = <<[cmd |-> cmd[t], answers |-> dlg[t].answers]>>
  /\ reply = << >>
  /\ Quiet
  /\ Fresh
  /\ Blank(t)

\* Of answer a to command n the parser has read k lines, the lines up to j are in
\* rx, line i at place f[i] between lines of other kinds, and the rest is to come.
InFlight(a, n, k, j, f) ==
  /\ cmdq = << >>
  /\ Lines(reply, a, n, j, Len(a))
  /\ \A i \in k + 1 .. j : rx[f[i]] = AnswerLine(a, n, i)
  /\ \A i, m \in k + 1 .. j : i < m => f[i] < f[m]
  /\ \A p \in 1 .. Len(rx) :
       rx[p].kind \in OtherKind \/ \E i \in k + 1 .. j : f[i] = p

\* Where the parser is once it has read k lines of answer a for t.
Gathering(t, a, k) ==
  \/ ppc = "reset" /\ k = 0 /\ Collected(t, a, 0)
  \/ Resting /\ k < Len(a) /\ Counted(k) /\ Collected(t, a, k)
  \/ /\ ppc \in {"dispatch", "copy"} /\ k > 0 /\ line = AnswerLine(a, cmd[t], k)
     /\ Counted(k - 1) /\ Collected(t, a, k - 1)
  \/ /\ ppc = "check" /\ k > 0 /\ line = AnswerLine(a, cmd[t], k)
     /\ Counted(k) /\ Collected(t, a, k)
  \/ /\ ppc \in {"store", "clear"} /\ k = Len(a)
     /\ Counted(k) /\ Collected(t, a, k)
     /\ resp_status = Verdict(a)
     /\ ppc = "clear" => ro[t].line_counts = Len(a)

Answering(t, a, k, j, f) ==
  /\ InFlight(a, cmd[t], k, j, f)
  /\ Gathering(t, a, k)
  /\ pc[t] = "zero" => k = 0

\* The parser has taken the whole answer and told, or is about to tell, t.
Answered(t, a) ==
  /\ Silent
  /\ pc[t] # "zero"
  /\ resp = NULL
  /\ Whole(t, a)
  /\ resp_status = Verdict(a)
  /\ \/ ppc = "release" /\ resp_notice = 0
     \/ ppc = "reset" /\ resp_notice = 1

\* The exchange of a caller that waits for its answer.
Exchange(t) ==
  \/ /\ resp = t /\ resp_notice = 0
     /\ Asked(t)
  \/ /\ resp = t /\ resp_notice = 0
     /\ \E a \in dlg[t].answers : \E k \in 0 .. Len(a) : \E j \in k .. Len(a) :
        \E f \in [k + 1 .. j -> 1 .. Len(rx)] : Answering(t, a, k, j, f)
  \/ \E a \in dlg[t].answers : Answered(t, a)

\* What is true of a caller by itself, and of the holder of client->lock with
\* what it shares.
Local(t) ==
  /\ api[t] # "execnull" /\ pc[t] # "wcheck"
  /\ pc[t] # "idle" => dlg[t] \in Dialogs
  /\ pc[t] \in {"lock", "send", "wprobe"} => Blank(t)
  /\ pc[t] \in {"exit", "unlock", "done"} /\ api[t] = "exec" =>
       \E a \in dlg[t].answers : Whole(t, a) /\ result[t] = Outcome(a)

Holder(t) ==
  /\ pc[t] \in {"send", "wprobe"} =>
       Silent /\ Fresh /\ resp = t /\ resp_notice = 0
  /\ pc[t] \in {"zero", "wait", "wwait"} => Exchange(t)
  /\ pc[t] \in {"check", "wdelete", "exit", "unlock"} =>
       Silent /\ ppc = "reset" /\ resp = NULL /\ resp_notice = 0
  /\ pc[t] = "check" =>
       \E a \in dlg[t].answers : Whole(t, a) /\ resp_status = Verdict(a)

Free == lock = NULL => Silent /\ Fresh /\ resp_notice = 0

ExchangeInv == Free /\ \A t \in Tasks : Local(t) /\ Holder(t)

-----------------------------------------------------------------------------
(* The answer on its way *)

\* The kinds an answer is made of are not the ones the parser sets aside.
LEMMA KindsDiffer == \A x \in AnswerKind : x \notin OtherKind /\ x \in LineKind
BY DEF AnswerKind, OtherKind, LineKind

\* The modem's next line goes to the end of rx.
LEMMA FlightEmit ==
  ASSUME TypeOK, Emit, NEW n, NEW a \in Seq(AnswerKind),
         NEW k \in 0 .. Len(a), NEW j \in k .. Len(a),
         NEW f \in [k + 1 .. j -> 1 .. Len(rx)], InFlight(a, n, k, j, f)
  PROVE  /\ j + 1 \in k .. Len(a)
         /\ \E g \in [k + 1 .. j + 1 -> 1 .. Len(rx')] :
              InFlight(a, n, k, j + 1, g)'
<1>0. Len(a) \in Nat /\ k \in Nat /\ j \in Nat /\ j <= Len(a)
  OBVIOUS
<1>1. Lines(reply, a, n, j, Len(a))
  BY DEF InFlight
<1>2. reply # << >> /\ rx' = Append(rx, Head(reply)) /\ reply' = Tail(reply)
      /\ cmdq' = cmdq
  BY DEF Emit
<1>3. Len(reply) = Len(a) - j /\ Len(a) - j > 0
  BY <1>0, <1>1, <1>2 DEF Lines, TypeOK
<1>4. Head(reply) = AnswerLine(a, n, j + 1)
  BY <1>0, <1>1, <1>3 DEF Lines, TypeOK
<1>5. Lines(reply', a, n, j + 1, Len(a))
  <2>1. Len(reply') = Len(a) - (j + 1)
    BY <1>0, <1>2, <1>3 DEF TypeOK
  <2>2. ASSUME NEW i \in 1 .. Len(a) - (j + 1)
        PROVE  reply'[i] = AnswerLine(a, n, j + 1 + i)
    <3>1. reply'[i] = reply[i + 1]
      BY <1>0, <1>2, <1>3 DEF TypeOK
    <3>2. i + 1 \in 1 .. Len(a) - j /\ j + (i + 1) = j + 1 + i
      BY <1>0
    <3>3. reply[i + 1] = AnswerLine(a, n, j + (i + 1))
      BY <1>1, <3>2 DEF Lines
    <3>4. QED
      BY <3>1, <3>2, <3>3
  <2>3. QED
    BY <2>1, <2>2 DEF Lines
<1>g. PICK g : g = [i \in k + 1 .. j + 1 |-> IF i = j + 1 THEN Len(rx) + 1 ELSE f[i]]
  OBVIOUS
<1>6. rx \in Seq(Line) /\ Len(rx) \in Nat /\ Len(rx') = Len(rx) + 1
  BY <1>2, <1>4 DEF TypeOK
<1>7. rx'[Len(rx) + 1] = AnswerLine(a, n, j + 1)
      /\ \A p \in 1 .. Len(rx) : rx'[p] = rx[p]
  BY <1>2, <1>4, <1>6
<1>8. \A i \in k + 1 .. j : f[i] \in 1 .. Len(rx) /\ g[i] = f[i]
  BY <1>0, <1>g
<1>9. g[j + 1] = Len(rx) + 1
  BY <1>0, <1>g
<1>10. g \in [k + 1 .. j + 1 -> 1 .. Len(rx')]
  BY <1>0, <1>6, <1>8, <1>g
<1>11. InFlight(a, n, k, j + 1, g)'
  <2>1. \A i \in k + 1 .. j + 1 : rx'[g[i]] = AnswerLine(a, n, i)
    <3> SUFFICES ASSUME NEW i \in k + 1 .. j + 1
                 PROVE  rx'[g[i]] = AnswerLine(a, n, i)
      OBVIOUS
    <3>1. CASE i = j + 1
      BY <1>7, <1>9, <3>1
    <3>2. CASE i # j + 1
      <4>1. i \in k + 1 .. j
        BY <1>0, <3>2
      <4>2. QED
        BY <1>7, <1>8, <4>1 DEF InFlight
    <3>3. QED
      BY <3>1, <3>2
  <2>2. \A i, m \in k + 1 .. j + 1 : i < m => g[i] < g[m]
    <3> SUFFICES ASSUME NEW i \in k + 1 .. j + 1, NEW m \in k + 1 .. j + 1, i < m
                 PROVE  g[i] < g[m]
      OBVIOUS
    <3>1. i \in k + 1 .. j /\ (m = j + 1 \/ m \in k + 1 .. j)
      BY <1>0
    <3>2. CASE m = j + 1
      BY <1>6, <1>8, <1>9, <3>1, <3>2
    <3>3. CASE m \in k + 1 .. j
      BY <1>8, <3>1, <3>3 DEF InFlight
    <3>4. QED
      BY <3>1, <3>2, <3>3
  <2>3. \A p \in 1 .. Len(rx') :
          rx'[p].kind \in OtherKind \/ \E i \in k + 1 .. j + 1 : g[i] = p
    <3> SUFFICES ASSUME NEW p \in 1 .. Len(rx')
                 PROVE  rx'[p].kind \in OtherKind \/ \E i \in k + 1 .. j + 1 : g[i] = p
      OBVIOUS
    <3>1. CASE p = Len(rx) + 1
      <4>1. j + 1 \in k + 1 .. j + 1
        BY <1>0
      <4>2. QED
        BY <1>9, <3>1, <4>1
    <3>2. CASE p \in 1 .. Len(rx)
      <4>1. rx[p].kind \in OtherKind \/ \E i \in k + 1 .. j : f[i] = p
        BY <3>2 DEF InFlight
      <4>2. \A i \in k + 1 .. j : i \in k + 1 .. j + 1
        BY <1>0
      <4>3. QED
        BY <1>7, <1>8, <3>2, <4>1, <4>2
    <3>3. QED
      BY <1>6, <3>1, <3>2
  <2>4. QED
    BY <1>2, <1>5, <2>1, <2>2, <2>3 DEF InFlight, Lines, AnswerLine
<1>12. j + 1 \in k .. Len(a)
  BY <1>0, <1>3
<1>13. QED
  BY <1>10, <1>11, <1>12

\* A line of another kind at the end of rx changes nothing for the answer.
LEMMA FlightUnsolicited ==
  ASSUME TypeOK, EmitUnsolicited, NEW n, NEW a \in Seq(AnswerKind),
         NEW k \in 0 .. Len(a), NEW j \in k .. Len(a),
         NEW f \in [k + 1 .. j -> 1 .. Len(rx)], InFlight(a, n, k, j, f)
  PROVE  f \in [k + 1 .. j -> 1 .. Len(rx')] /\ InFlight(a, n, k, j, f)'
<1>1. PICK x \in Unsolicited : rx' = Append(rx, [kind |-> x, cmd |-> 0])
  BY DEF EmitUnsolicited
<1>2. rx \in Seq(Line) /\ Len(rx) \in Nat /\ Len(rx') = Len(rx) + 1
      /\ rx'[Len(rx) + 1].kind \in OtherKind
      /\ \A p \in 1 .. Len(rx) : rx'[p] = rx[p]
  BY <1>1, KnownAssumption DEF TypeOK
<1>3. \A i \in k + 1 .. j : f[i] \in 1 .. Len(rx)
  OBVIOUS
<1>4. f \in [k + 1 .. j -> 1 .. Len(rx')]
  BY <1>2
<1>5. \A i \in k + 1 .. j : rx'[f[i]] = AnswerLine(a, n, i)
  BY <1>2, <1>3 DEF InFlight
<1>6. \A p \in 1 .. Len(rx') :
        rx'[p].kind \in OtherKind \/ \E i \in k + 1 .. j : f[i] = p
  <2> SUFFICES ASSUME NEW p \in 1 .. Len(rx')
               PROVE  rx'[p].kind \in OtherKind \/ \E i \in k + 1 .. j : f[i] = p
    OBVIOUS
  <2>1. CASE p = Len(rx) + 1
    BY <1>2, <2>1
  <2>2. CASE p \in 1 .. Len(rx)
    BY <1>2, <2>2 DEF InFlight
  <2>3. QED
    BY <1>2, <2>1, <2>2
<1>7. cmdq' = cmdq /\ reply' = reply
  BY DEF EmitUnsolicited
<1>8. QED
  BY <1>4, <1>5, <1>6, <1>7 DEF InFlight, Lines, AnswerLine

\* The parser reads a line that is not of the answer: the answer moves up.
LEMMA FlightSkip ==
  ASSUME TypeOK, rx # << >>, rx' = Tail(rx), cmdq' = cmdq, reply' = reply,
         Head(rx).kind \in OtherKind, NEW n, NEW a \in Seq(AnswerKind),
         NEW k \in 0 .. Len(a), NEW j \in k .. Len(a),
         NEW f \in [k + 1 .. j -> 1 .. Len(rx)], InFlight(a, n, k, j, f)
  PROVE  \E g \in [k + 1 .. j -> 1 .. Len(rx')] : InFlight(a, n, k, j, g)'
<1>0. /\ Len(a) \in Nat /\ k \in Nat /\ j \in Nat /\ j <= Len(a)
      /\ rx \in Seq(Line) /\ Len(rx) \in Nat /\ Len(rx) > 0
      /\ Len(rx') = Len(rx) - 1
      /\ \A p \in 1 .. Len(rx') : rx'[p] = rx[p + 1]
  BY DEF TypeOK
<1>1. ASSUME NEW i \in k + 1 .. j PROVE f[i] \in 2 .. Len(rx)
  <2>0. f[i] \in 1 .. Len(rx) /\ rx[f[i]] = AnswerLine(a, n, i)
    BY DEF InFlight
  <2>1. f[i] \in 1 .. Len(rx) /\ rx[f[i]].kind = a[i]
    BY <2>0 DEF AnswerLine
  <2>2. a[i] \notin OtherKind
    BY <1>0, KindsDiffer
  <2>3. f[i] # 1
    BY <2>1, <2>2
  <2>4. QED
    BY <1>0, <2>1, <2>3
<1>2. PICK g : g = [i \in k + 1 .. j |-> f[i] - 1]
  OBVIOUS
<1>3. \A i \in k + 1 .. j : g[i] = f[i] - 1 /\ g[i] \in 1 .. Len(rx')
  BY <1>0, <1>1, <1>2
<1>4. g \in [k + 1 .. j -> 1 .. Len(rx')]
  BY <1>2, <1>3
<1>5. \A i \in k + 1 .. j : rx'[g[i]] = AnswerLine(a, n, i)
  <2> SUFFICES ASSUME NEW i \in k + 1 .. j PROVE rx'[g[i]] = AnswerLine(a, n, i)
    OBVIOUS
  <2>0. g[i] \in 1 .. Len(rx') /\ g[i] = f[i] - 1 /\ f[i] \in 2 .. Len(rx)
    BY <1>1, <1>3
  <2>1. rx'[g[i]] = rx[g[i] + 1] /\ g[i] + 1 = f[i]
    BY <1>0, <2>0
  <2>2. QED
    BY <2>1 DEF InFlight
<1>6. \A i, m \in k + 1 .. j : i < m => g[i] < g[m]
  BY <1>1, <1>3 DEF InFlight
<1>7. \A p \in 1 .. Len(rx') :
        rx'[p].kind \in OtherKind \/ \E i \in k + 1 .. j : g[i] = p
  <2> SUFFICES ASSUME NEW p \in 1 .. Len(rx')
               PROVE  rx'[p].kind \in OtherKind \/ \E i \in k + 1 .. j : g[i] = p
    OBVIOUS
  <2>1. p + 1 \in 1 .. Len(rx) /\ rx'[p] = rx[p + 1] /\ (p + 1) - 1 = p
    BY <1>0
  <2>2. rx[p + 1].kind \in OtherKind \/ \E i \in k + 1 .. j : f[i] = p + 1
    BY <2>1 DEF InFlight
  <2>3. QED
    BY <1>3, <2>1, <2>2
<1>8. QED
  BY <1>4, <1>5, <1>6, <1>7 DEF InFlight, Lines, AnswerLine

\* The parser reads a line of the answer: it is the next one.
LEMMA FlightRead ==
  ASSUME TypeOK, rx # << >>, rx' = Tail(rx), cmdq' = cmdq, reply' = reply,
         Head(rx).kind \notin OtherKind, NEW n, NEW a \in Seq(AnswerKind),
         NEW k \in 0 .. Len(a), NEW j \in k .. Len(a),
         NEW f \in [k + 1 .. j -> 1 .. Len(rx)], InFlight(a, n, k, j, f)
  PROVE  /\ k + 1 \in 0 .. Len(a) /\ j \in k + 1 .. Len(a)
         /\ Head(rx) = AnswerLine(a, n, k + 1)
         /\ \E g \in [(k + 1) + 1 .. j -> 1 .. Len(rx')] :
              InFlight(a, n, k + 1, j, g)'
<1>0. /\ Len(a) \in Nat /\ k \in Nat /\ j \in Nat /\ k <= j /\ j <= Len(a)
      /\ rx \in Seq(Line) /\ Len(rx) \in Nat /\ Len(rx) > 0
      /\ Len(rx') = Len(rx) - 1
      /\ \A p \in 1 .. Len(rx') : rx'[p] = rx[p + 1]
      /\ Head(rx) = rx[1]
  BY DEF TypeOK
<1>1. PICK m \in k + 1 .. j : f[m] = 1
  BY <1>0 DEF InFlight
<1>2. k + 1 \in k + 1 .. j /\ \A i \in k + 1 .. j : f[i] \in 1 .. Len(rx)
  BY <1>0
<1>3. m = k + 1
  <2>1. ASSUME k + 1 < m PROVE FALSE
    <3>1. f[k + 1] < f[m]
      BY <1>2, <2>1 DEF InFlight
    <3>2. f[k + 1] \in 1 .. Len(rx)
      BY <1>2
    <3>3. QED
      BY <1>1, <3>1, <3>2
  <2>2. QED
    BY <1>0, <2>1
<1>4. Head(rx) = AnswerLine(a, n, k + 1)
  BY <1>0, <1>1, <1>3 DEF InFlight
<1>5. ASSUME NEW i \in (k + 1) + 1 .. j PROVE i \in k + 1 .. j /\ f[i] \in 2 .. Len(rx)
  <2>1. i \in k + 1 .. j /\ k + 1 < i
    BY <1>0
  <2>2. f[k + 1] < f[i]
    BY <1>2, <2>1 DEF InFlight
  <2>3. f[i] \in 1 .. Len(rx)
    BY <1>2, <2>1
  <2>4. QED
    BY <1>0, <1>1, <1>3, <2>1, <2>2, <2>3
<1>6. PICK g : g = [i \in (k + 1) + 1 .. j |-> f[i] - 1]
  OBVIOUS
<1>7. \A i \in (k + 1) + 1 .. j : g[i] = f[i] - 1 /\ g[i] \in 1 .. Len(rx')
  BY <1>0, <1>5, <1>6
<1>8. g \in [(k + 1) + 1 .. j -> 1 .. Len(rx')]
  BY <1>6, <1>7
<1>9. \A i \in (k + 1) + 1 .. j : rx'[g[i]] = AnswerLine(a, n, i)
  <2> SUFFICES ASSUME NEW i \in (k + 1) + 1 .. j PROVE rx'[g[i]] = AnswerLine(a, n, i)
    OBVIOUS
  <2>1. i \in k + 1 .. j /\ f[i] \in 2 .. Len(rx)
    BY <1>5
  <2>2. g[i] \in 1 .. Len(rx') /\ g[i] = f[i] - 1
    BY <1>7
  <2>3. g[i] + 1 = f[i]
    BY <1>0, <2>1, <2>2
  <2>4. rx'[g[i]] = rx[g[i] + 1]
    BY <1>0, <2>2
  <2>5. QED
    BY <2>1, <2>3, <2>4 DEF InFlight
<1>10. \A i, q \in (k + 1) + 1 .. j : i < q => g[i] < g[q]
  BY <1>5, <1>7 DEF InFlight
<1>11. \A p \in 1 .. Len(rx') :
         rx'[p].kind \in OtherKind \/ \E i \in (k + 1) + 1 .. j : g[i] = p
  <2> SUFFICES ASSUME NEW p \in 1 .. Len(rx'), rx'[p].kind \notin OtherKind
               PROVE  \E i \in (k + 1) + 1 .. j : g[i] = p
    OBVIOUS
  <2>1. p + 1 \in 1 .. Len(rx) /\ rx'[p] = rx[p + 1] /\ (p + 1) - 1 = p
    BY <1>0
  <2>2. PICK i \in k + 1 .. j : f[i] = p + 1
    BY <2>1 DEF InFlight
  <2>3. i # k + 1
    BY <1>1, <1>3, <2>2
  <2>4. i \in (k + 1) + 1 .. j
    BY <1>0, <2>3
  <2>5. QED
    BY <1>7, <2>1, <2>2, <2>4
<1>12. InFlight(a, n, k + 1, j, g)'
  BY <1>9, <1>10, <1>11 DEF InFlight, Lines, AnswerLine
<1>13. k + 1 \in 0 .. Len(a) /\ j \in k + 1 .. Len(a)
  BY <1>0, <1>2
<1>14. QED
  BY <1>4, <1>8, <1>12, <1>13

-----------------------------------------------------------------------------
(* Steps that leave a caller alone *)

\* What belongs to caller t alone.
Own(t) == <<pc[t], api[t], dlg[t], cmd[t], result[t], ro[t]>>

\* What the callers, the parser and the modem share.
Shared == <<resp, resp_status, resp_notice, ppc, line, resp_buf_len, line_counts,
            rx, cmdq, reply>>

\* What a step that leaves a caller's own state alone leaves true of it.
LEMMA WholeFrame ==
  ASSUME NEW t \in Tasks, NEW a, UNCHANGED Own(t)
  PROVE  Whole(t, a)' <=> Whole(t, a)
BY DEF Own, Whole, Collected, Lines, AnswerLine

LEMMA LocalFrame ==
  ASSUME NEW t \in Tasks, Local(t), UNCHANGED Own(t)
  PROVE  Local(t)'
<1>1. UNCHANGED <<pc[t], api[t], dlg[t], cmd[t], result[t], ro[t]>>
  BY DEF Own
<1>2. \A a : Whole(t, a)' <=> Whole(t, a)
  BY WholeFrame
<1>3. QED
  BY <1>1, <1>2 DEF Local, Blank, Outcome

\* What a step that leaves the shared state alone leaves true of it.
LEMMA SilentFrame ==
  ASSUME UNCHANGED Shared
  PROVE  /\ Silent' <=> Silent
         /\ Quiet' <=> Quiet
         /\ Fresh' <=> Fresh
BY DEF Shared, Silent, Quiet, Fresh, Resting, Counted

LEMMA HolderFrame ==
  ASSUME NEW t \in Tasks, Holder(t), UNCHANGED Own(t), UNCHANGED Shared
  PROVE  Holder(t)'
<1>1. UNCHANGED <<pc[t], api[t], dlg[t], cmd[t], result[t], ro[t]>>
  BY DEF Own
<1>2. UNCHANGED <<resp, resp_status, resp_notice, ppc, line, resp_buf_len,
                  line_counts, rx, cmdq, reply>>
  BY DEF Shared
<1>3. \A a : Whole(t, a)' <=> Whole(t, a)
  BY WholeFrame
<1>4. (Silent' <=> Silent) /\ (Quiet' <=> Quiet) /\ (Fresh' <=> Fresh)
  BY SilentFrame
<1>5. ASSUME NEW a, NEW k, NEW j, NEW f
      PROVE  Answering(t, a, k, j, f)' <=> Answering(t, a, k, j, f)
  <2>1. InFlight(a, cmd[t], k, j, f)' <=> InFlight(a, cmd[t], k, j, f)
    BY <1>1, <1>2 DEF InFlight, Lines, AnswerLine
  <2>2. Gathering(t, a, k)' <=> Gathering(t, a, k)
    <3>1. \A c : Collected(t, a, c)' <=> Collected(t, a, c)
      BY <1>1 DEF Collected, Lines, AnswerLine
    <3>2. (Resting' <=> Resting) /\ \A c : Counted(c)' <=> Counted(c)
      BY <1>2 DEF Resting, Counted
    <3>3. AnswerLine(a, cmd[t], k)' = AnswerLine(a, cmd[t], k)
      BY <1>1 DEF AnswerLine
    <3>4. QED
      BY <1>1, <1>2, <3>1, <3>2, <3>3 DEF Gathering, Verdict
  <2>3. QED
    BY <1>1, <2>1, <2>2 DEF Answering
<1>6. \A a : Answered(t, a)' <=> Answered(t, a)
  BY <1>1, <1>2, <1>3, <1>4 DEF Answered, Verdict
<1>7. Asked(t)' <=> Asked(t)
  BY <1>1, <1>2, <1>4 DEF Asked, Blank
<1>8. Exchange(t)' <=> Exchange(t)
  BY <1>1, <1>2, <1>5, <1>6, <1>7 DEF Exchange
<1>9. QED
  BY <1>1, <1>2, <1>3, <1>4, <1>8 DEF Holder, Verdict

\* A caller outside the lock shares nothing.
LEMMA Outside ==
  ASSUME NEW t \in Tasks, pc[t] \notin Locked
  PROVE  Holder(t)
BY DEF Holder, Locked

\* A step that leaves every caller but t alone, whoever held the lock before it.
LEMMA OnlyHolder ==
  ASSUME TypeOK, RespUnderLock, ExchangeInv, NEW t \in Tasks,
         lock \in {t, NULL}, \A u \in Tasks : u # t => UNCHANGED Own(u),
         Local(t)', Holder(t)', Free'
  PROVE  ExchangeInv'
<1>1. ASSUME NEW u \in Tasks, u # t PROVE Local(u)' /\ Holder(u)'
  <2>1. UNCHANGED Own(u) /\ Local(u)
    BY <1>1 DEF ExchangeInv
  <2>2. Local(u)'
    BY <2>1, LocalFrame
  <2>3. pc[u] \notin Locked
    BY <1>1, NullAssumption DEF RespUnderLock
  <2>4. pc'[u] \notin Locked
    BY <2>1, <2>3 DEF Own
  <2>5. Holder(u)'
    BY <2>4 DEF Holder, Locked
  <2>6. QED
    BY <2>2, <2>5
<1>2. QED
  BY <1>1 DEF ExchangeInv

\* A step of t on what is its own.
LEMMA ByItself ==
  ASSUME ExchangeInv, NEW t \in Tasks, UNCHANGED Shared, UNCHANGED lock,
         \A u \in Tasks : u # t => UNCHANGED Own(u), Local(t)', Holder(t)'
  PROVE  ExchangeInv'
<1>1. Free'
  <2>1. Free
    BY DEF ExchangeInv
  <2>2. (Silent' <=> Silent) /\ (Fresh' <=> Fresh) /\ resp_notice' = resp_notice
    BY SilentFrame DEF Shared
  <2>3. QED
    BY <2>1, <2>2 DEF Free
<1>2. ASSUME NEW u \in Tasks, u # t PROVE Local(u)' /\ Holder(u)'
  BY <1>2, LocalFrame, HolderFrame DEF ExchangeInv
<1>3. QED
  BY <1>1, <1>2 DEF ExchangeInv

-----------------------------------------------------------------------------
(* Steps of the callers *)

\* A call begins outside the lock.
LEMMA ExchangeBegin ==
  ASSUME TypeOK, RespUnderLock, ExchangeInv, NEW t \in Tasks, NEW a \in Apis,
         NEW d \in Dialogs, Begin(t, a, d)
  PROVE  ExchangeInv'
<1>0. USE DEF Begin, Goto, client, parser, modem, misc
<1>1. UNCHANGED Shared /\ UNCHANGED lock
  BY DEF Shared
<1>2. ASSUME NEW u \in Tasks, u # t PROVE UNCHANGED Own(u)
  BY <1>2 DEF Own, TypeOK
<1>5. Local(t)'
  <2>1. /\ pc'[t] = "lock" /\ api'[t] = a /\ dlg'[t] = d
        /\ a \in {"exec", "wait"}
    BY WaitsAssumption DEF TypeOK
  <2>2. ro'[t] = NewResp(d.line_num)
    BY <2>1 DEF TypeOK
  <2>3. QED
    BY <2>1, <2>2 DEF Local, Blank, NewResp
<1>6. Holder(t)'
  BY DEF Holder, TypeOK
<1>7. QED
  BY <1>1, <1>2, <1>5, <1>6, ByItself

\* The lock is taken with nothing left of the last exchange.
LEMMA ExchangeTakeLock ==
  ASSUME TypeOK, RespUnderLock, ExchangeInv, NEW t \in Tasks, TakeLock(t)
  PROVE  ExchangeInv'
<1>0. USE DEF TakeLock, Goto, parser, modem, misc
<1>1. ASSUME NEW u \in Tasks, u # t PROVE UNCHANGED Own(u)
  BY <1>1 DEF Own, TypeOK
<1>2. Silent /\ Fresh /\ resp_notice = 0
  BY DEF ExchangeInv, Free
<1>3. Silent' /\ Fresh' /\ resp_notice' = 0
  BY <1>2 DEF Silent, Quiet, Fresh, Resting, Counted
<1>4. Local(t)
  BY DEF ExchangeInv
<1>5. /\ resp' = t /\ pc'[t] \in {"send", "wprobe"}
      /\ UNCHANGED <<api[t], dlg[t], ro[t]>> /\ pc[t] = "lock"
  BY <1>4 DEF Local, TypeOK
<1>6. Local(t)'
  BY <1>4, <1>5 DEF Local, Blank
<1>7. Holder(t)'
  BY <1>3, <1>5 DEF Holder
<1>8. Free'
  BY NullAssumption DEF Free
<1>9. QED
  BY <1>1, <1>6, <1>7, <1>8, OnlyHolder

\* The command goes out: Send of at_obj_exec_cmd, Probe of
\* at_client_obj_wait_connect.
LEMMA ExchangeSend ==
  ASSUME TypeOK, RespUnderLock, LifeInv, ExchangeInv, NEW t \in Tasks,
         Send(t) \/ Probe(t)
  PROVE  ExchangeInv'
<1>0. USE DEF Send, Probe, Transmit, Goto, client, parser
<1>1. Local(t) /\ Holder(t) /\ pc[t] \in {"send", "wprobe"} /\ lock = t
  BY DEF ExchangeInv, RespUnderLock, Locked
<1>2. api[t] # "execnull" /\ (pc[t] = "send" => api[t] # "wait")
  BY <1>1 DEF Local, LifeInv, LifeOf
<1>3. Silent /\ Fresh /\ resp = t /\ resp_notice = 0
  BY <1>1 DEF Holder
<1>4. /\ pc'[t] \in {"zero", "wwait"} /\ cmd'[t] = ncmd + 1
      /\ UNCHANGED <<api[t], dlg[t], lock, resp, resp_notice, ppc, line,
                     resp_buf_len, line_counts, rx, reply>>
  BY <1>2 DEF TypeOK
<1>5. Blank(t)'
  <2>1. Blank(t)
    BY <1>1 DEF Local
  <2>2. CASE Send(t)
    BY <1>4, <2>1, <2>2 DEF Blank
  <2>3. CASE Probe(t)
    <3>1. ro'[t] = [ro[t] EXCEPT !.line_counts = 0]
      BY <2>3 DEF TypeOK
    <3>2. QED
      BY <1>4, <2>1, <3>1 DEF Blank, TypeOK, RespObject
  <2>4. QED
    BY <2>2, <2>3
<1>6. cmdq' = <<[cmd |-> cmd'[t], answers |-> dlg'[t].answers]>>
  BY <1>3, <1>4 DEF Silent
<1>7. Quiet' /\ Fresh' /\ reply' = << >>
  BY <1>3, <1>4 DEF Silent, Quiet, Fresh, Resting, Counted
<1>8. Exchange(t)'
  BY <1>3, <1>4, <1>5, <1>6, <1>7 DEF Exchange, Asked
<1>9. Holder(t)'
  BY <1>4, <1>8 DEF Holder
<1>10. Local(t)'
  BY <1>1, <1>4 DEF Local
<1>11. Free'
  BY <1>1, <1>4, NullAssumption DEF Free
<1>12. ASSUME NEW u \in Tasks, u # t PROVE UNCHANGED Own(u)
  BY <1>12 DEF Own, TypeOK
<1>13. QED
  BY <1>1, <1>9, <1>10, <1>11, <1>12, OnlyHolder

LEMMA ExchangeZero ==
  ASSUME TypeOK, RespUnderLock, LifeInv, ExchangeInv, NEW t \in Tasks, ZeroCounts(t)
  PROVE  ExchangeInv'
<1>0. USE DEF ZeroCounts, Goto, client, parser, modem, misc
<1>1. Local(t) /\ Holder(t) /\ Exchange(t) /\ pc[t] = "zero" /\ lock = t
  BY DEF ExchangeInv, RespUnderLock, Locked, Holder
<1>2. /\ pc'[t] = "wait" /\ ro'[t] = [ro[t] EXCEPT !.line_counts = 0]
      /\ UNCHANGED <<lock, api[t], dlg[t], cmd[t], result[t]>>
      /\ UNCHANGED Shared
  BY DEF TypeOK, Shared
<1>3. UNCHANGED <<resp, resp_status, resp_notice, ppc, line, resp_buf_len,
                  line_counts, rx, cmdq, reply>>
  BY <1>2 DEF Shared
<1>4. Exchange(t)'
  <2>1. CASE resp = t /\ resp_notice = 0 /\ Asked(t)
    <3>1. Blank(t)'
      BY <1>2, <2>1 DEF Asked, Blank, TypeOK, RespObject
    <3>2. Asked(t)'
      BY <1>2, <1>3, <2>1, <3>1, SilentFrame DEF Asked
    <3>3. QED
      BY <1>3, <2>1, <3>2 DEF Exchange
  <2>2. ASSUME resp = t, resp_notice = 0, NEW a \in dlg[t].answers,
               NEW k \in 0 .. Len(a), NEW j \in k .. Len(a),
               NEW f \in [k + 1 .. j -> 1 .. Len(rx)], Answering(t, a, k, j, f)
        PROVE  Exchange(t)'
    <3>1. k = 0 /\ InFlight(a, cmd[t], k, j, f) /\ Gathering(t, a, k)
      BY <1>1, <2>2 DEF Answering
    <3>2. InFlight(a, cmd[t], k, j, f)'
      BY <1>2, <1>3, <3>1 DEF InFlight, Lines, AnswerLine
    <3>3. Collected(t, a, 0) => Collected(t, a, 0)'
      BY <1>2 DEF Collected, Lines, AnswerLine, TypeOK, RespObject
    <3>4. Len(a) # 0
      BY <1>1, AnswersAssumption DEF Local, WellFormed
    <3>5. Gathering(t, a, k)'
      BY <1>3, <3>1, <3>3, <3>4 DEF Gathering, Resting, Counted
    <3>6. Answering(t, a, k, j, f)'
      BY <1>2, <3>2, <3>5 DEF Answering
    <3>7. a \in dlg'[t].answers /\ f \in [k + 1 .. j -> 1 .. Len(rx')]
      BY <1>2, <1>3
    <3>8. QED
      BY <1>3, <2>2, <3>6, <3>7 DEF Exchange
  <2>3. QED
    BY <1>1, <2>1, <2>2 DEF Exchange, Answered
<1>5. Holder(t)'
  BY <1>2, <1>4 DEF Holder
<1>6. Local(t)'
  BY <1>1, <1>2 DEF Local
<1>7. Free'
  BY <1>1, <1>2, NullAssumption DEF Free
<1>8. ASSUME NEW u \in Tasks, u # t PROVE UNCHANGED Own(u)
  BY <1>8 DEF Own, TypeOK
<1>9. QED
  BY <1>1, <1>5, <1>6, <1>7, <1>8, OnlyHolder

LEMMA ExchangeNotice ==
  ASSUME TypeOK, RespUnderLock, LifeInv, ExchangeInv, NEW t \in Tasks, TakeNotice(t)
  PROVE  ExchangeInv'
<1>0. USE DEF TakeNotice, Goto, parser, modem, misc
<1>1. /\ Local(t) /\ Exchange(t) /\ pc[t] \in {"wait", "wwait"} /\ lock = t
      /\ resp_notice # 0 /\ resp_notice' = resp_notice - 1
  BY DEF ExchangeInv, RespUnderLock, Locked, Holder, TypeOK
<1>2. PICK a \in dlg[t].answers : Answered(t, a)
  BY <1>1 DEF Exchange
<1>3. /\ Silent /\ resp = NULL /\ Whole(t, a) /\ resp_status = Verdict(a)
      /\ ppc = "reset" /\ resp_notice = 1
  BY <1>1, <1>2 DEF Answered
<1>4. /\ pc'[t] = IF pc[t] = "wait" THEN "check" ELSE "wdelete"
      /\ UNCHANGED <<lock, resp, resp_status, ppc, rx, cmdq, reply, api[t], dlg[t],
                     cmd[t], ro[t]>>
  BY DEF TypeOK
<1>5. Silent' /\ Whole(t, a)' /\ resp_notice' = 0 /\ resp_status' = Verdict(a)
  <2>1. Silent' /\ resp_status' = Verdict(a)
    BY <1>3, <1>4 DEF Silent, Quiet
  <2>2. Whole(t, a)'
    BY <1>3, <1>4 DEF Whole, Collected, Lines, AnswerLine
  <2>3. resp_notice' = 0
    BY <1>1, <1>3
  <2>4. QED
    BY <2>1, <2>2, <2>3
<1>6. Holder(t)'
  BY <1>1, <1>2, <1>3, <1>4, <1>5 DEF Holder, Verdict
<1>7. Local(t)'
  BY <1>1, <1>4 DEF Local
<1>8. Free'
  BY <1>1, <1>4, NullAssumption DEF Free
<1>9. ASSUME NEW u \in Tasks, u # t PROVE UNCHANGED Own(u)
  BY <1>9 DEF Own, TypeOK
<1>10. QED
  BY <1>1, <1>6, <1>7, <1>8, <1>9, OnlyHolder

\* From the notice to the release of the mutex the parser stands before its reset
\* and the caller works on what is its own.
LEMMA ExchangeLeave ==
  ASSUME TypeOK, RespUnderLock, LifeInv, ExchangeInv, NEW t \in Tasks,
         CheckStatus(t) \/ ProbeDelete(t) \/ Exit(t) \/ Unlock(t)
  PROVE  ExchangeInv'
<1>0. USE DEF CheckStatus, ProbeDelete, Exit, Unlock, Goto, client, parser, modem,
              misc
<1>1. /\ Local(t) /\ Holder(t) /\ lock = t
      /\ pc[t] \in {"check", "wdelete", "exit", "unlock"}
  BY DEF ExchangeInv, RespUnderLock, Locked
<1>2. Silent /\ ppc = "reset" /\ resp = NULL /\ resp_notice = 0
  BY <1>1 DEF Holder
<1>3. /\ pc'[t] \in {"exit", "unlock", "done"}
      /\ UNCHANGED <<resp_status, resp_notice, ppc, rx, cmdq, reply, api[t], dlg[t],
                     cmd[t]>>
      /\ resp' = NULL
  BY <1>2 DEF TypeOK
<1>4. Silent'
  BY <1>2, <1>3 DEF Silent, Quiet
<1>5. Holder(t)'
  BY <1>2, <1>3, <1>4 DEF Holder
<1>6. Free'
  BY <1>2, <1>3, <1>4 DEF Free, Fresh
<1>7. Local(t)'
  <2>1. CASE CheckStatus(t)
    <3>1. PICK a \in dlg[t].answers : Whole(t, a) /\ resp_status = Verdict(a)
      BY <1>1, <2>1 DEF Holder
    <3>2. ro' = ro /\ result'[t] = Outcome(a)
      BY <2>1, <3>1 DEF Verdict, Outcome, TypeOK
    <3>3. Whole(t, a)'
      BY <1>3, <3>1, <3>2 DEF Whole, Collected, Lines, AnswerLine
    <3>4. QED
      BY <1>1, <1>3, <3>2, <3>3 DEF Local, Outcome
  <2>2. CASE ProbeDelete(t)
    <3>1. api[t] = "wait"
      BY <2>2 DEF LifeInv, LifeOf
    <3>2. QED
      BY <1>1, <1>3, <3>1 DEF Local
  <2>3. CASE Exit(t) \/ Unlock(t)
    <3>1. ro' = ro /\ result' = result /\ pc[t] \in {"exit", "unlock"}
      BY <2>3
    <3>2. \A a : Whole(t, a) => Whole(t, a)'
      BY <1>3, <3>1 DEF Whole, Collected, Lines, AnswerLine
    <3>3. QED
      BY <1>1, <1>3, <3>1, <3>2 DEF Local, Outcome
  <2>4. QED
    BY <2>1, <2>2, <2>3
<1>8. ASSUME NEW u \in Tasks, u # t PROVE UNCHANGED Own(u)
  BY <1>8 DEF Own, TypeOK
<1>9. QED
  BY <1>1, <1>5, <1>6, <1>7, <1>8, OnlyHolder

\* A call returns outside the lock.
LEMMA ExchangeReturn ==
  ASSUME TypeOK, RespUnderLock, ExchangeInv, NEW t \in Tasks, Return(t)
  PROVE  ExchangeInv'
<1>0. USE DEF Return, Goto, client, parser, modem, misc
<1>1. UNCHANGED Shared /\ UNCHANGED lock
  BY DEF Shared
<1>2. ASSUME NEW u \in Tasks, u # t PROVE UNCHANGED Own(u)
  BY <1>2 DEF Own, TypeOK
<1>3. Local(t)' /\ Holder(t)'
  BY DEF ExchangeInv, Local, Holder, TypeOK
<1>4. QED
  BY <1>1, <1>2, <1>3, ByItself

\* A caller step of any kind.
LEMMA ExchangeCaller ==
  ASSUME TypeOK, RespUnderLock, LifeInv, ExchangeInv, NEW t \in Tasks, CallerStep(t)
  PROVE  ExchangeInv'
<1>1. CASE Send(t) \/ Probe(t)
  BY <1>1, ExchangeSend
<1>2. CASE ZeroCounts(t)
  BY <1>2, ExchangeZero
<1>3. CASE TakeNotice(t)
  BY <1>3, ExchangeNotice
<1>4. CASE CheckStatus(t) \/ ProbeDelete(t) \/ Exit(t) \/ Unlock(t)
  BY <1>4, ExchangeLeave
<1>5. CASE Return(t)
  BY <1>5, ExchangeReturn
<1>6. CASE Timeout(t) \/ ProbeTimeout(t)
  BY <1>6, NoTimeoutAssumption DEF Timeout, ProbeTimeout
<1>7. CASE ProbeAgain(t)
  BY <1>7 DEF ProbeAgain, ExchangeInv, Local
<1>8. QED
  BY <1>1, <1>2, <1>3, <1>4, <1>5, <1>6, <1>7 DEF CallerStep

-----------------------------------------------------------------------------
(* Steps of the modem and the application *)

\* A step of the parser or the modem touches no caller but, in its response, the
\* holder of the lock.
LEMMA AroundCallers ==
  ASSUME TypeOK, RespUnderLock, ExchangeInv,
         UNCHANGED <<lock, pc, api, dlg, cmd, result>>,
         \A u \in Tasks : u # lock => UNCHANGED ro[u],
         \A t \in Tasks : lock = t => Local(t)' /\ Holder(t)',
         Free'
  PROVE  ExchangeInv'
<1> SUFFICES ASSUME NEW u \in Tasks, u # lock PROVE Local(u)' /\ Holder(u)'
  BY DEF ExchangeInv
<1>1. UNCHANGED Own(u)
  BY DEF Own
<1>2. Local(u)'
  BY <1>1, LocalFrame DEF ExchangeInv
<1>3. pc'[u] \notin Locked
  BY DEF RespUnderLock
<1>4. QED
  BY <1>2, <1>3 DEF Holder, Locked

\* Unless the line is silent the holder of the lock waits for its answer.
LEMMA SomebodyWaits ==
  ASSUME TypeOK, RespUnderLock, ExchangeInv, ~Silent
  PROVE  \E t \in Tasks : /\ lock = t
                          /\ pc[t] \in {"zero", "wait", "wwait"}
                          /\ Exchange(t)
<1>1. lock \in Tasks
  BY DEF ExchangeInv, Free, TypeOK
<1>2. pc[lock] \in Locked /\ Holder(lock) /\ Local(lock)
  BY <1>1 DEF RespUnderLock, ExchangeInv
<1>3. QED
  BY <1>1, <1>2 DEF Holder, Local, Locked

\* The answers of a caller in a call.
LEMMA AnswersOf ==
  ASSUME NEW t \in Tasks, Local(t), pc[t] # "idle", NEW a \in dlg[t].answers
  PROVE  /\ a \in Seq(AnswerKind) /\ Len(a) \in Nat /\ Len(a) # 0
         /\ Len(a) * LineLen < BufSize
         /\ \A i \in 1 .. Len(a) : Ends(dlg[t].line_num, a, i) <=> i = Len(a)
<1>1. WellFormed(dlg[t])
  BY AnswersAssumption DEF Local
<1>2. QED
  BY <1>1 DEF WellFormed

LEMMA ExchangeAnswer ==
  ASSUME TypeOK, RespUnderLock, ExchangeInv, Answer
  PROVE  ExchangeInv'
<1>0. USE DEF Answer, client, callers, parser, misc
<1>1. PICK t \in Tasks : /\ lock = t
                         /\ pc[t] \in {"zero", "wait", "wwait"}
                         /\ Exchange(t)
  BY SomebodyWaits DEF Silent
<1>2. resp = t /\ resp_notice = 0 /\ Asked(t)
  BY <1>1 DEF Exchange, Answering, InFlight, Answered, Silent
<1>3. Local(t)
  BY DEF ExchangeInv
<1>4. Head(cmdq) = [cmd |-> cmd[t], answers |-> dlg[t].answers] /\ Tail(cmdq) = << >>
  BY <1>2 DEF Asked
<1>5. PICK a \in dlg[t].answers :
        reply' = [i \in 1 .. Len(a) |-> [kind |-> a[i], cmd |-> cmd[t]]]
  BY <1>4
<1>6. Len(a) \in Nat /\ Len(a) # 0
  BY <1>1, <1>3, AnswersOf
<1>7. Lines(reply', a, cmd[t], 0, Len(a))
  BY <1>5, <1>6 DEF Lines, AnswerLine
<1>8. PICK f : f = [i \in 0 + 1 .. 0 |-> 1]
  OBVIOUS
<1>9. InFlight(a, cmd[t], 0, 0, f)'
  <2>1. Quiet /\ rx' = rx /\ cmdq' = << >> /\ cmd' = cmd
    BY <1>2, <1>4 DEF Asked
  <2>2. \A i \in 0 + 1 .. 0 : FALSE
    OBVIOUS
  <2>3. QED
    BY <1>7, <2>1, <2>2 DEF InFlight, Quiet
<1>10. Gathering(t, a, 0)'
  <2>1. Fresh /\ Blank(t)
    BY <1>2 DEF Asked
  <2>2. Collected(t, a, 0)'
    BY <2>1 DEF Blank, Collected, Lines
  <2>3. Fresh'
    BY <2>1 DEF Fresh, Resting, Counted
  <2>4. QED
    BY <1>6, <2>2, <2>3 DEF Gathering, Fresh
<1>11. Answering(t, a, 0, 0, f)'
  BY <1>9, <1>10 DEF Answering
<1>12. Exchange(t)'
  <2>1. f \in [0 + 1 .. 0 -> 1 .. Len(rx')] /\ 0 \in 0 .. Len(a)
    BY <1>6, <1>8
  <2>2. QED
    BY <1>2, <1>11, <2>1 DEF Exchange
<1>13. Holder(t)'
  BY <1>1, <1>12 DEF Holder
<1>14. Local(t)'
  BY <1>3, LocalFrame DEF Own
<1>15. QED
  BY <1>1, <1>13, <1>14, AroundCallers, NullAssumption DEF Free

LEMMA ExchangeEmit ==
  ASSUME TypeOK, RespUnderLock, ExchangeInv, Emit
  PROVE  ExchangeInv'
<1>0. USE DEF Emit, client, callers, parser, misc
<1>1. PICK t \in Tasks : /\ lock = t
                         /\ pc[t] \in {"zero", "wait", "wwait"}
                         /\ Exchange(t)
  BY SomebodyWaits DEF Silent
<1>2. resp = t /\ resp_notice = 0
      /\ \E a \in dlg[t].answers : \E k \in 0 .. Len(a) : \E j \in k .. Len(a) :
         \E f \in [k + 1 .. j -> 1 .. Len(rx)] : Answering(t, a, k, j, f)
  BY <1>1 DEF Exchange, Asked, Answered, Silent
<1>3. Local(t)
  BY DEF ExchangeInv
<1>4. ASSUME NEW a \in dlg[t].answers, NEW k \in 0 .. Len(a), NEW j \in k .. Len(a),
             NEW f \in [k + 1 .. j -> 1 .. Len(rx)], Answering(t, a, k, j, f)
      PROVE  Exchange(t)'
  <2>1. a \in Seq(AnswerKind)
    BY <1>1, <1>3, AnswersOf
  <2>2. InFlight(a, cmd[t], k, j, f) /\ Gathering(t, a, k)
        /\ (pc[t] = "zero" => k = 0)
    BY <1>4 DEF Answering
  <2>3. PICK n : n = cmd[t]
    OBVIOUS
  <2>4. /\ j + 1 \in k .. Len(a)
        /\ \E g \in [k + 1 .. j + 1 -> 1 .. Len(rx')] : InFlight(a, n, k, j + 1, g)'
    BY <2>1, <2>2, <2>3, FlightEmit
  <2>5. PICK g \in [k + 1 .. j + 1 -> 1 .. Len(rx')] : InFlight(a, n, k, j + 1, g)'
    BY <2>4
  <2>6. InFlight(a, cmd[t], k, j + 1, g)'
    BY <2>3, <2>5 DEF InFlight, Lines, AnswerLine
  <2>7. Gathering(t, a, k)'
    BY <2>2 DEF Gathering, Resting, Counted, Collected, Lines, AnswerLine, Verdict
  <2>8. Answering(t, a, k, j + 1, g)'
    BY <2>2, <2>6, <2>7 DEF Answering
  <2>9. QED
    BY <1>2, <2>4, <2>8 DEF Exchange
<1>5. Holder(t)'
  BY <1>1, <1>2, <1>4 DEF Holder
<1>6. Local(t)'
  BY <1>3, LocalFrame DEF Own
<1>7. QED
  BY <1>1, <1>5, <1>6, AroundCallers, NullAssumption DEF Free

LEMMA ExchangeUnsolicited ==
  ASSUME TypeOK, RespUnderLock, ExchangeInv, EmitUnsolicited
  PROVE  ExchangeInv'
<1>0. USE DEF client, callers, parser, misc
<1>1. UNCHANGED <<lock, resp, resp_status, resp_notice, ro, pc, api, dlg, cmd, result,
                  ppc, line, resp_buf_len, line_counts, cmdq, reply>>
  BY DEF EmitUnsolicited
<1>2. Quiet => Quiet'
  <2>1. PICK x \in Unsolicited : rx' = Append(rx, [kind |-> x, cmd |-> 0])
    BY DEF EmitUnsolicited
  <2>2. \A p \in 1 .. Len(rx') :
          rx'[p].kind \in OtherKind \/ (p \in 1 .. Len(rx) /\ rx'[p] = rx[p])
    BY <2>1, KnownAssumption DEF TypeOK
  <2>3. QED
    BY <2>2 DEF Quiet
<1>3. (Silent => Silent') /\ (Fresh => Fresh')
  BY <1>1, <1>2 DEF Silent, Fresh, Resting, Counted
<1>4. Free'
  BY <1>1, <1>3 DEF ExchangeInv, Free
<1>5. ASSUME NEW t \in Tasks, lock = t PROVE Local(t)' /\ Holder(t)'
  <2>1. Local(t) /\ Holder(t) /\ pc[t] # "idle" /\ UNCHANGED Own(t)
    BY <1>1, <1>5 DEF ExchangeInv, Own, RespUnderLock, Locked
  <2>2. \A a : Whole(t, a)' <=> Whole(t, a)
    BY <2>1, WholeFrame
  <2>3. ASSUME Exchange(t) PROVE Exchange(t)'
    <3>1. ASSUME Asked(t) PROVE Asked(t)'
      BY <1>1, <1>2, <1>3, <3>1 DEF Asked, Blank
    <3>2. ASSUME NEW a \in dlg[t].answers, Answered(t, a) PROVE Answered(t, a)'
      BY <1>1, <1>3, <2>2, <3>2 DEF Answered, Verdict
    <3>3. ASSUME NEW a \in dlg[t].answers, NEW k \in 0 .. Len(a),
                 NEW j \in k .. Len(a), NEW f \in [k + 1 .. j -> 1 .. Len(rx)],
                 Answering(t, a, k, j, f)
          PROVE  f \in [k + 1 .. j -> 1 .. Len(rx')] /\ Answering(t, a, k, j, f)'
      <4>1. PICK n : n = cmd[t]
        OBVIOUS
      <4>2. a \in Seq(AnswerKind)
        BY <2>1, AnswersOf
      <4>3. InFlight(a, n, k, j, f) /\ Gathering(t, a, k) /\ (pc[t] = "zero" => k = 0)
        BY <3>3, <4>1 DEF Answering
      <4>4. f \in [k + 1 .. j -> 1 .. Len(rx')] /\ InFlight(a, n, k, j, f)'
        BY <4>2, <4>3, FlightUnsolicited
      <4>5. InFlight(a, cmd[t], k, j, f)'
        BY <1>1, <4>1, <4>4 DEF InFlight, Lines, AnswerLine
      <4>6. Gathering(t, a, k)'
        BY <1>1, <4>3 DEF Gathering, Resting, Counted, Collected, Lines, AnswerLine,
                          Verdict
      <4>7. QED
        BY <1>1, <4>3, <4>4, <4>5, <4>6 DEF Answering
    <3>4. QED
      BY <1>1, <2>3, <3>1, <3>2, <3>3 DEF Exchange
  <2>4. Holder(t)'
    BY <1>1, <1>3, <2>1, <2>2, <2>3 DEF Holder, Verdict
  <2>5. QED
    BY <2>1, <2>4, LocalFrame
<1>6. QED
  BY <1>1, <1>4, <1>5, AroundCallers

LEMMA ExchangeStation ==
  ASSUME ExchangeInv, SetStation \/ UNCHANGED vars
  PROVE  ExchangeInv'
<1>1. UNCHANGED Shared /\ UNCHANGED lock
  BY DEF SetStation, vars, Shared, client, parser, modem
<1>2. ASSUME NEW u \in Tasks PROVE UNCHANGED Own(u)
  BY DEF SetStation, vars, Own, callers
<1>3. ASSUME NEW u \in Tasks PROVE Local(u)' /\ Holder(u)'
  BY <1>1, <1>2, LocalFrame, HolderFrame DEF ExchangeInv
<1>4. Free'
  BY <1>1, SilentFrame DEF ExchangeInv, Free, Shared
<1>5. QED
  BY <1>3, <1>4 DEF ExchangeInv

-----------------------------------------------------------------------------
(* Steps of the parser *)

\* The parser runs only when the lock is free or its holder waits for a notice.
LEMMA ParserTurn ==
  ASSUME TypeOK, RespUnderLock, client_parser, lock # NULL
  PROVE  lock \in Tasks /\ pc[lock] \in {"wait", "wwait"} /\ resp_notice = 0
<1>1. lock \in Tasks /\ pc[lock] \in Locked
  BY DEF TypeOK, RespUnderLock
<1>2. Asleep(lock)
  BY <1>1, AboveAssumption DEF client_parser
<1>3. QED
  BY <1>1, <1>2 DEF Asleep, Locked

\* A parser step that reads nothing leaves the answer where it is.
LEMMA SameFlight ==
  ASSUME NEW t \in Tasks, NEW a \in dlg[t].answers, NEW k \in 0 .. Len(a),
         NEW j \in k .. Len(a), NEW f \in [k + 1 .. j -> 1 .. Len(rx)],
         Answering(t, a, k, j, f), resp = t, resp_notice = 0,
         UNCHANGED <<pc, dlg, cmd, resp, resp_notice, modem>>, Gathering(t, a, k)'
  PROVE  Exchange(t)'
<1>0. USE DEF modem
<1>1. InFlight(a, cmd[t], k, j, f)'
  BY DEF Answering, InFlight, Lines, AnswerLine
<1>2. Answering(t, a, k, j, f)'
  BY <1>1 DEF Answering
<1>3. QED
  BY <1>2 DEF Exchange

\* A line that is copied becomes the next line of the response.
LEMMA CollectNext ==
  ASSUME TypeOK, NEW t \in Tasks, NEW a, NEW k \in Nat, k > 0,
         Collected(t, a, k - 1), Counted(k - 1), line = AnswerLine(a, cmd[t], k),
         ro' = [ro EXCEPT ![t] = AddLine(@)], UNCHANGED <<dlg, cmd>>
  PROVE  Collected(t, a, k)'
<1>1. ro[t] \in RespObject /\ ro[t].lines \in Seq(Line) /\ line \in Line
  BY DEF TypeOK, RespObject
<1>2. ro'[t] = AddLine(ro[t])
  BY DEF TypeOK
<1>3. /\ ro'[t].line_num = ro[t].line_num
      /\ ro'[t].lines = Append(ro[t].lines, line)
      /\ ro'[t].gap = IF ro[t].lines = << >> THEN resp_buf_len ELSE ro[t].gap
  BY <1>1, <1>2 DEF AddLine, RespObject
<1>4. Lines(ro'[t].lines, a, cmd[t], 0, k)
  <2>1. Len(ro[t].lines) = k - 1
        /\ \A i \in 1 .. k - 1 : ro[t].lines[i] = AnswerLine(a, cmd[t], 0 + i)
    BY DEF Collected, Lines
  <2>2. /\ Len(ro'[t].lines) = k
        /\ \A i \in 1 .. k - 1 : ro'[t].lines[i] = ro[t].lines[i]
        /\ ro'[t].lines[k] = line
    BY <1>1, <1>3, <2>1
  <2>3. ASSUME NEW i \in 1 .. k - 0
        PROVE  ro'[t].lines[i] = AnswerLine(a, cmd[t], 0 + i)
    <3>1. CASE i = k
      BY <2>2, <3>1
    <3>2. CASE i # k
      <4>1. i \in 1 .. k - 1
        BY <3>2
      <4>2. QED
        BY <2>1, <2>2, <4>1
    <3>3. QED
      BY <3>1, <3>2
  <2>4. QED
    BY <2>2, <2>3 DEF Lines
<1>5. ro'[t].gap = 0
  <2>1. CASE ro[t].lines = << >>
    <3>1. k - 1 = 0
      BY <2>1 DEF Collected, Lines
    <3>2. resp_buf_len = 0
      BY <3>1, SizeAssumption DEF Counted
    <3>3. QED
      BY <1>3, <2>1, <3>2
  <2>2. CASE ro[t].lines # << >>
    BY <1>3, <2>2 DEF Collected
  <2>3. QED
    BY <2>1, <2>2
<1>6. QED
  BY <1>3, <1>4, <1>5 DEF Collected, Lines, AnswerLine

\* The next line is not of an answer: the parser drops it or takes it to its
\* function.
LEMMA ReadOther ==
  ASSUME TypeOK, ReadLine, Head(rx).kind \in OtherKind
  PROVE  Resting'
BY DEF ReadLine, Resting, OtherKind

\* While no line of an answer is on its way the parser has none in hand and
\* leaves the responses alone.
LEMMA ParserAtRest ==
  ASSUME TypeOK, client_parser, Quiet, Fresh
  PROVE  /\ Quiet' /\ Fresh'
         /\ UNCHANGED <<client, ro, callers, cmdq, reply>>
<1>0. USE DEF Fresh, Resting
<1>1. ppc \in {"top", "read", "dispatch", "reset"}
  OBVIOUS
<1>2. CASE Top \/ Dispatch \/ ResetLocals
  <2>1. UNCHANGED <<client, ro, callers, cmdq, reply, rx>>
    BY <1>2 DEF Top, Dispatch, ResetLocals, modem
  <2>2. Fresh'
    BY <1>2, SizeAssumption DEF Top, Dispatch, ResetLocals, Counted
  <2>3. QED
    BY <2>1, <2>2 DEF Quiet
<1>3. CASE ReadLine
  <2>1. rx \in Seq(Line) /\ rx # << >> /\ rx' = Tail(rx)
    BY <1>3 DEF ReadLine, TypeOK
  <2>2. Head(rx).kind \in OtherKind
    BY <2>1 DEF Quiet
  <2>3. Resting'
    BY <1>3, <2>2, ReadOther
  <2>4. Counted(0)'
    BY <1>3 DEF ReadLine, Counted
  <2>5. Quiet'
    <3>1. \A p \in 1 .. Len(rx') : p + 1 \in 1 .. Len(rx) /\ rx'[p] = rx[p + 1]
      BY <2>1
    <3>2. QED
      BY <3>1 DEF Quiet
  <2>6. QED
    BY <1>3, <2>3, <2>4, <2>5 DEF ReadLine
<1>4. QED
  BY <1>1, <1>2, <1>3 DEF client_parser, CopyLine, CheckLine, StoreCounts, ClearResp,
                          ReleaseNotice, Fault

\* Arithmetic that the steps below need as a fact of its own.
LEMMA Successor == \A k \in Nat : (k + 1) - 1 = k /\ k + 1 > 0
OBVIOUS

\* The parser reads a line while an answer is on its way.
LEMMA GatherRead ==
  ASSUME TypeOK, NEW t \in Tasks, Local(t), pc[t] \in {"wait", "wwait"},
         resp = t, resp_notice = 0, NEW a \in dlg[t].answers,
         NEW k \in 0 .. Len(a), NEW j \in k .. Len(a),
         NEW f \in [k + 1 .. j -> 1 .. Len(rx)], Answering(t, a, k, j, f), ReadLine
  PROVE  Exchange(t)'
<1>0. USE DEF ReadLine, client, callers
<1>1. a \in Seq(AnswerKind) /\ Len(a) \in Nat /\ Len(a) # 0
  BY AnswersOf
<1>k. k \in Nat
  <2>1. Len(a) \in Nat => 0 .. Len(a) \subseteq Nat
    OBVIOUS
  <2>2. QED
    BY <1>1, <2>1, Zenon
<1>2. PICK n : n = cmd[t]
  OBVIOUS
<1>3. InFlight(a, n, k, j, f) /\ Gathering(t, a, k)
  BY <1>2 DEF Answering
<1>4. k < Len(a) /\ Counted(k) /\ Collected(t, a, k)
  BY <1>3 DEF Gathering, Resting
<1>5. Counted(k)' /\ Collected(t, a, k)'
  BY <1>4 DEF Counted, Collected, Lines, AnswerLine
<1>6. CASE Head(rx).kind \in OtherKind
  <2>1. PICK g \in [k + 1 .. j -> 1 .. Len(rx')] : InFlight(a, n, k, j, g)'
    BY <1>1, <1>3, <1>6, FlightSkip
  <2>2. InFlight(a, cmd[t], k, j, g)'
    BY <1>2, <2>1 DEF InFlight, Lines, AnswerLine
  <2>3. Gathering(t, a, k)'
    BY <1>4, <1>5, <1>6, ReadOther DEF Gathering
  <2>4. Answering(t, a, k, j, g)'
    BY <2>2, <2>3 DEF Answering
  <2>5. QED
    BY <2>4 DEF Exchange
<1>7. CASE Head(rx).kind \notin OtherKind
  <2>1. /\ k + 1 \in 0 .. Len(a) /\ j \in k + 1 .. Len(a)
        /\ Head(rx) = AnswerLine(a, n, k + 1)
        /\ \E g \in [(k + 1) + 1 .. j -> 1 .. Len(rx')] : InFlight(a, n, k + 1, j, g)'
    BY <1>1, <1>3, <1>7, FlightRead
  <2>2. PICK g \in [(k + 1) + 1 .. j -> 1 .. Len(rx')] : InFlight(a, n, k + 1, j, g)'
    BY <2>1
  <2>3. InFlight(a, cmd[t], k + 1, j, g)'
    BY <1>2, <2>2 DEF InFlight, Lines, AnswerLine
  <2>4. Gathering(t, a, k + 1)'
    <3>1. ppc' = "dispatch" /\ line' = AnswerLine(a, n, k + 1) /\ cmd'[t] = n
      BY <1>2, <1>7, <2>1 DEF OtherKind
    <3>2. (k + 1) - 1 = k /\ k + 1 > 0
      BY <1>k, Successor
    <3>3. Counted((k + 1) - 1)' /\ Collected(t, a, (k + 1) - 1)'
      BY <1>5, <3>2
    <3>4. QED
      BY <3>1, <3>2, <3>3 DEF Gathering, AnswerLine
  <2>5. Answering(t, a, k + 1, j, g)'
    BY <2>3, <2>4 DEF Answering
  <2>6. QED
    BY <2>1, <2>5 DEF Exchange
<1>8. QED
  BY <1>6, <1>7

\* Fewer lines need no more bytes.
LEMMA LengthGrows ==
  ASSUME NEW m \in Nat, NEW n \in Nat, NEW z \in Nat, m <= n
  PROVE  m * z <= n * z
<1>1. PICK d \in Nat : n = m + d
  <2>1. n - m \in Nat /\ n = m + (n - m)
    OBVIOUS
  <2>2. QED
    BY <2>1
<1>2. n * z = m * z + d * z
  BY <1>1
<1>3. d * z \in Nat /\ m * z \in Nat
  OBVIOUS
<1>4. QED
  BY <1>2, <1>3

\* The parser takes the line it has read to the response and looks whether the
\* answer is complete.
LEMMA GatherStep ==
  ASSUME TypeOK, LifeInv, NEW t \in Tasks, Local(t), pc[t] \in {"wait", "wwait"},
         resp = t, resp_notice = 0, NEW a \in dlg[t].answers,
         NEW k \in 0 .. Len(a), Gathering(t, a, k),
         Top \/ Dispatch \/ CopyLine \/ CheckLine \/ StoreCounts \/ ResetLocals
  PROVE  Gathering(t, a, k)'
<1>0. USE DEF client, callers
<1>1. /\ Len(a) \in Nat /\ Len(a) # 0 /\ Len(a) * LineLen < BufSize
      /\ a \in Seq(AnswerKind)
      /\ \A i \in 1 .. Len(a) : Ends(dlg[t].line_num, a, i) <=> i = Len(a)
  BY AnswersOf
<1>2. k \in Nat /\ k <= Len(a) /\ t # NULL /\ Valid
  <2>1. ro[t].live
    BY DEF LifeInv, LifeOf, Local, TypeOK, Api
  <2>2. QED
    BY <1>1, <2>1, NullAssumption DEF Valid
<1>3. UNCHANGED <<cmd, dlg>> /\ AnswerLine(a, cmd[t], k)' = AnswerLine(a, cmd[t], k)
  BY DEF Top, Dispatch, CopyLine, CheckLine, StoreCounts, ResetLocals, AnswerLine
<1>4. ASSUME ro' = ro PROVE \A c : Collected(t, a, c)' <=> Collected(t, a, c)
  BY <1>3, <1>4 DEF Collected, Lines, AnswerLine
<1>5. CASE Top
  <2>1. Counted(k) /\ Collected(t, a, k) /\ k < Len(a)
    BY <1>5 DEF Top, Gathering, Resting
  <2>2. Resting' /\ Counted(k)' /\ Collected(t, a, k)'
    BY <1>4, <1>5, <2>1 DEF Top, Resting, Counted
  <2>3. QED
    BY <2>1, <2>2 DEF Gathering
<1>6. CASE Dispatch
  <2>1. ro' = ro /\ line' = line /\ \A c : Counted(c)' <=> Counted(c)
    BY <1>6 DEF Dispatch, Counted
  <2>2. CASE line.kind = "urc"
    <3>1. line # AnswerLine(a, cmd[t], k) \/ k = 0
      BY <1>1, <1>2, <2>2, KindsDiffer DEF AnswerLine, OtherKind
    <3>2. Counted(k) /\ Collected(t, a, k) /\ k < Len(a)
      BY <1>6, <3>1 DEF Dispatch, Gathering
    <3>3. Resting'
      BY <1>6, <2>2 DEF Dispatch, Resting
    <3>4. QED
      BY <1>4, <2>1, <3>2, <3>3 DEF Gathering
  <2>3. CASE line.kind # "urc"
    <3>1. /\ k > 0 /\ line = AnswerLine(a, cmd[t], k)
          /\ Counted(k - 1) /\ Collected(t, a, k - 1)
      BY <1>6, <2>3 DEF Dispatch, Gathering, Resting
    <3>2. ppc' = "copy"
      BY <1>2, <1>6, <2>3 DEF Dispatch
    <3>3. QED
      BY <1>3, <1>4, <2>1, <3>1, <3>2 DEF Gathering
  <2>4. QED
    BY <2>2, <2>3
<1>7. CASE CopyLine
  <2>1. /\ k > 0 /\ line = AnswerLine(a, cmd[t], k)
        /\ Counted(k - 1) /\ Collected(t, a, k - 1)
    BY <1>7 DEF CopyLine, Gathering, Resting
  <2>2. resp_buf_len + LineLen = k * LineLen /\ k * LineLen < BufSize
    <3>1. LineLen \in Nat /\ BufSize \in Nat
      BY SizeAssumption
    <3>2. (k - 1) * LineLen + LineLen = k * LineLen
      BY <1>2, <3>1
    <3>3. k * LineLen <= Len(a) * LineLen
      BY <1>1, <1>2, <3>1, LengthGrows
    <3>4. k * LineLen \in Nat /\ Len(a) * LineLen \in Nat
      BY <1>1, <1>2, <3>1
    <3>5. resp_buf_len = (k - 1) * LineLen
      BY <2>1 DEF Counted
    <3>6. QED
      BY <1>1, <3>1, <3>2, <3>3, <3>4, <3>5
  <2>3. /\ ro' = [ro EXCEPT ![t] = AddLine(@)]
        /\ resp_buf_len' = resp_buf_len + LineLen
        /\ line_counts' = line_counts + 1
        /\ ppc' = "check" /\ line' = line
    BY <1>7, <2>2 DEF CopyLine
  <2>4. Collected(t, a, k)'
    BY <1>2, <1>3, <2>1, <2>3, CollectNext
  <2>5. Counted(k)'
    BY <1>2, <2>1, <2>2, <2>3 DEF Counted
  <2>6. QED
    BY <1>3, <2>1, <2>3, <2>4, <2>5 DEF Gathering
<1>8. CASE CheckLine
  <2>1. /\ k > 0 /\ line = AnswerLine(a, cmd[t], k)
        /\ Counted(k) /\ Collected(t, a, k)
    BY <1>8 DEF CheckLine, Gathering, Resting
  <2>2. line.kind = a[k] /\ line_counts = k /\ ro[t].line_num = dlg[t].line_num
    BY <2>1 DEF AnswerLine, Counted, Collected
  <2>3. (line.kind = "ERROR" \/ EndsOK(ro[t].line_num)) <=> k = Len(a)
    <3>1. Ends(dlg[t].line_num, a, k) <=> k = Len(a)
      BY <1>1, <1>2, <2>1
    <3>2. QED
      BY <2>2, <3>1 DEF Ends, EndsOK
  <2>4. ro' = ro /\ \A c : Counted(c)' <=> Counted(c)
    BY <1>8 DEF CheckLine, Counted
  <2>5. CASE k = Len(a)
    <3>1. ppc' = "store" /\ resp_status' = Verdict(a)
      BY <1>8, <2>2, <2>3, <2>5 DEF CheckLine, Verdict
    <3>2. QED
      BY <1>4, <2>1, <2>4, <2>5, <3>1 DEF Gathering, Verdict
  <2>6. CASE k # Len(a)
    <3>1. ppc' = "top" /\ k < Len(a)
      BY <1>1, <1>2, <1>8, <2>3, <2>6 DEF CheckLine
    <3>2. QED
      BY <1>4, <2>1, <2>4, <3>1 DEF Gathering, Resting
  <2>7. QED
    BY <2>5, <2>6
<1>9. CASE StoreCounts
  <2>1. k = Len(a) /\ Counted(k) /\ Collected(t, a, k) /\ resp_status = Verdict(a)
    BY <1>9 DEF StoreCounts, Gathering, Resting
  <2>2. ro'[t] = [ro[t] EXCEPT !.line_counts = line_counts] /\ line_counts = Len(a)
    BY <1>9, <2>1 DEF StoreCounts, TypeOK, Counted
  <2>3. /\ ro'[t].gap = ro[t].gap /\ ro'[t].line_num = ro[t].line_num
        /\ ro'[t].lines = ro[t].lines /\ ro'[t].line_counts = Len(a)
    BY <2>2 DEF TypeOK, RespObject
  <2>4. Collected(t, a, k)'
    BY <1>3, <2>1, <2>3 DEF Collected, Lines, AnswerLine
  <2>5. Counted(k)' /\ ppc' = "clear" /\ resp_status' = resp_status
    BY <1>9, <2>1 DEF StoreCounts, Counted
  <2>6. QED
    BY <2>1, <2>3, <2>4, <2>5 DEF Gathering, Verdict
<1>10. CASE ResetLocals
  <2>1. k = 0 /\ Collected(t, a, 0)
    BY <1>10 DEF ResetLocals, Gathering, Resting
  <2>2. Counted(0)' /\ Resting' /\ ro' = ro
    BY <1>10, SizeAssumption DEF ResetLocals, Counted, Resting
  <2>3. QED
    BY <1>1, <1>4, <2>1, <2>2 DEF Gathering
<1>11. QED
  BY <1>5, <1>6, <1>7, <1>8, <1>9, <1>10

\* The whole answer is in the response when the parser takes client->resp away.
LEMMA GatherClear ==
  ASSUME TypeOK, NEW t \in Tasks, Local(t), pc[t] \in {"wait", "wwait"},
         resp_notice = 0, NEW a \in dlg[t].answers,
         NEW k \in 0 .. Len(a), NEW j \in k .. Len(a),
         NEW f \in [k + 1 .. j -> 1 .. Len(rx)], Answering(t, a, k, j, f), ClearResp
  PROVE  Answered(t, a)'
<1>0. USE DEF ClearResp, callers, modem
<1>1. Len(a) \in Nat
  BY AnswersOf
<1>2. /\ k = Len(a) /\ Collected(t, a, Len(a)) /\ resp_status = Verdict(a)
      /\ ro[t].line_counts = Len(a) /\ InFlight(a, cmd[t], k, j, f)
  BY DEF Answering, Gathering, Resting
<1>3. j = Len(a)
  BY <1>1, <1>2
<1>4. Silent
  <2>1. reply = << >>
    BY <1>1, <1>2, <1>3 DEF InFlight, Lines, TypeOK
  <2>2. \A i \in k + 1 .. j : FALSE
    BY <1>1, <1>2, <1>3
  <2>3. QED
    BY <1>2, <2>1, <2>2 DEF InFlight, Silent, Quiet
<1>5. Silent' /\ Whole(t, a)'
  BY <1>2, <1>4 DEF Silent, Quiet, Whole, Collected, Lines, AnswerLine
<1>6. QED
  BY <1>2, <1>5 DEF Answered, Verdict

\* No step of the parser on a response finds client->resp null or freed.
LEMMA ExchangeParser ==
  ASSUME TypeOK, RespUnderLock, LifeInv, ExchangeInv, client_parser
  PROVE  ExchangeInv' /\ ~Fault
<1>1. UNCHANGED <<lock, pc, api, dlg, cmd, result>>
  BY DEF client_parser, Top, ReadLine, Dispatch, CopyLine, CheckLine, StoreCounts,
         ClearResp, ReleaseNotice, ResetLocals, Fault, client, callers
<1>2. CASE lock = NULL
  <2>1. Silent /\ Fresh /\ resp_notice = 0
    BY <1>2 DEF ExchangeInv, Free
  <2>2. /\ Quiet' /\ Fresh'
        /\ UNCHANGED <<client, ro, callers, cmdq, reply>>
    BY <2>1, ParserAtRest DEF Silent
  <2>3. Free'
    BY <2>1, <2>2 DEF Free, Silent, client
  <2>4. ~Fault
    BY <2>1 DEF Fault, Fresh, Resting
  <2>5. QED
    BY <1>1, <1>2, <2>2, <2>3, <2>4, AroundCallers, NullAssumption
<1>3. CASE lock # NULL
  <2>1. PICK t \in Tasks : t = lock /\ pc[t] \in {"wait", "wwait"} /\ resp_notice = 0
    BY <1>3, ParserTurn
  <2>2. Local(t) /\ Exchange(t)
    BY <2>1 DEF ExchangeInv, Holder
  <2>3. ASSUME resp = t, Asked(t) PROVE Exchange(t)' /\ UNCHANGED ro /\ ~Fault
    <3>1. /\ Quiet' /\ Fresh'
          /\ UNCHANGED <<client, ro, callers, cmdq, reply>>
      BY <2>3, ParserAtRest DEF Asked
    <3>2. Asked(t)'
      BY <1>1, <2>3, <3>1 DEF Asked, Blank
    <3>3. ~Fault
      BY <2>3 DEF Asked, Fault, Fresh, Resting
    <3>4. QED
      BY <2>1, <2>3, <3>1, <3>2, <3>3 DEF Exchange, client
  <2>4. ASSUME resp = t, NEW a \in dlg[t].answers, NEW k \in 0 .. Len(a),
               NEW j \in k .. Len(a), NEW f \in [k + 1 .. j -> 1 .. Len(rx)],
               Answering(t, a, k, j, f)
        PROVE  Exchange(t)' /\ (\A u \in Tasks : u # t => UNCHANGED ro[u]) /\ ~Fault
    <3>1. Gathering(t, a, k)
      BY <2>4 DEF Answering
    <3>2. ro[t].live /\ Valid /\ ~Fault
      <4>1. ro[t].live
        BY <2>1, <2>2 DEF LifeInv, LifeOf, Local, TypeOK, Api
      <4>2. QED
        BY <2>4, <4>1, NullAssumption DEF Valid, Fault
    <3>3. \A u \in Tasks : u # t => UNCHANGED ro[u]
      BY <2>4 DEF client_parser, Top, ReadLine, Dispatch, CopyLine, CheckLine,
                  StoreCounts, ClearResp, ReleaseNotice, ResetLocals, Fault, TypeOK
    <3>4. CASE ReadLine
      BY <2>1, <2>2, <2>4, <3>3, <3>2, <3>4, GatherRead
    <3>5. CASE Top \/ Dispatch \/ CopyLine \/ CheckLine \/ StoreCounts \/ ResetLocals
      <4>1. Gathering(t, a, k)'
        BY <2>1, <2>2, <2>4, <3>1, <3>5, GatherStep
      <4>2. UNCHANGED <<pc, dlg, cmd, resp, resp_notice, modem>>
        BY <3>5 DEF Top, Dispatch, CopyLine, CheckLine, StoreCounts, ResetLocals,
                    client, callers
      <4>3. Exchange(t)'
        BY <2>1, <2>4, <4>1, <4>2, SameFlight
      <4>4. QED
        BY <3>2, <3>3, <4>3
    <3>6. CASE ClearResp
      <4>1. Answered(t, a)'
        BY <2>1, <2>2, <2>4, <3>6, GatherClear
      <4>2. QED
        BY <1>1, <3>2, <3>3, <4>1 DEF Exchange
    <3>7. CASE ReleaseNotice
      BY <3>1, <3>7 DEF ReleaseNotice, Gathering, Resting
    <3>8. QED
      BY <3>2, <3>4, <3>5, <3>6, <3>7 DEF client_parser
  <2>5. ASSUME NEW a \in dlg[t].answers, Answered(t, a)
        PROVE  Exchange(t)' /\ UNCHANGED ro /\ ~Fault
    <3>1. ppc = "release"
      BY <2>1, <2>5 DEF Answered
    <3>2. ReleaseNotice
      BY <3>1 DEF client_parser, Top, ReadLine, Dispatch, CopyLine, CheckLine,
                  StoreCounts, ClearResp, ResetLocals, Fault
    <3>3. /\ ppc' = "reset" /\ resp_notice' = 1
          /\ UNCHANGED <<resp, resp_status, ro, rx, cmdq, reply>>
      BY <2>1, <3>2 DEF ReleaseNotice, modem
    <3>4. Answered(t, a)'
      <4>1. Silent' /\ Whole(t, a)'
        BY <1>1, <2>5, <3>3 DEF Answered, Silent, Quiet, Whole, Collected, Lines,
                                AnswerLine
      <4>2. QED
        BY <1>1, <2>5, <3>3, <4>1 DEF Answered, Verdict
    <3>5. QED
      BY <1>1, <3>1, <3>3, <3>4 DEF Exchange, Fault
  <2>6. Exchange(t)' /\ (\A u \in Tasks : u # t => UNCHANGED ro[u]) /\ ~Fault
    BY <2>2, <2>3, <2>4, <2>5 DEF Exchange
  <2>7. Holder(t)'
    BY <1>1, <2>1, <2>6 DEF Holder
  <2>8. Local(t)'
    BY <1>1, <2>1, <2>2 DEF Local
  <2>9. QED
    BY <1>1, <2>1, <2>6, <2>7, <2>8, AroundCallers, NullAssumption DEF Free
<1>4. QED
  BY <1>2, <1>3

-----------------------------------------------------------------------------
(* The invariant and what follows from it *)

\* Nothing is on its way before the first call.
LEMMA ExchangeInit == Init => ExchangeInv
<1> SUFFICES ASSUME Init PROVE ExchangeInv
  OBVIOUS
<1>1. Free
  BY SizeAssumption DEF Init, Free, Silent, Quiet, Fresh, Resting, Counted
<1>2. ASSUME NEW t \in Tasks PROVE Local(t) /\ Holder(t)
  BY DEF Init, Local, Holder
<1>3. QED
  BY <1>1, <1>2 DEF ExchangeInv

\* Every step keeps the invariant.
LEMMA ExchangeStep ==
  TypeOK /\ RespUnderLock /\ LifeInv /\ ExchangeInv /\ [Next]_vars => ExchangeInv'
<1> SUFFICES ASSUME TypeOK, RespUnderLock, LifeInv, ExchangeInv, [Next]_vars
             PROVE  ExchangeInv'
  OBVIOUS
<1>1. ASSUME NEW t \in Tasks, NEW a \in Apis, NEW d \in Dialogs, Begin(t, a, d)
      PROVE  ExchangeInv'
  BY <1>1, ExchangeBegin
<1>2. ASSUME NEW t \in Tasks, TakeLock(t) PROVE ExchangeInv'
  BY <1>2, ExchangeTakeLock
<1>3. ASSUME NEW t \in Tasks, CallerStep(t) PROVE ExchangeInv'
  BY <1>3, ExchangeCaller
<1>4. CASE client_parser
  BY <1>4, ExchangeParser
<1>5. CASE Answer
  BY <1>5, ExchangeAnswer
<1>6. CASE Emit
  BY <1>6, ExchangeEmit
<1>7. CASE EmitUnsolicited
  BY <1>7, ExchangeUnsolicited
<1>8. CASE SetStation \/ UNCHANGED vars
  BY <1>8, ExchangeStation
<1>9. QED
  BY <1>1, <1>2, <1>3, <1>4, <1>5, <1>6, <1>7, <1>8 DEF Next

\* The invariant holds always, with the ones it rests on.
LEMMA ExchangeAlways == Spec => [](TypeOK /\ RespUnderLock /\ LifeInv /\ ExchangeInv)
<1>1. Init => LifeInv
  BY NullAssumption DEF Init, LifeInv, LifeOf
<1>2. QED
  BY <1>1, TypeCorrect, RespOwned, LifeStep, ExchangeInit, ExchangeStep, PTL DEF Spec

\* While no timeout fires before the answer, the parser never follows client->resp
\* when it is RT_NULL or freed, although it takes no lock: whenever it has a line
\* for a response, the caller the response belongs to is waiting.
THEOREM ParserNeverFaults == Spec => []NoFault
<1>1. Init => NoFault
  BY DEF Init, NoFault
<1>2. TypeOK /\ RespUnderLock /\ LifeInv /\ ExchangeInv /\ NoFault /\ [Next]_vars
      => NoFault'
  <2> SUFFICES ASSUME TypeOK, RespUnderLock, LifeInv, ExchangeInv, NoFault,
                      [Next]_vars
               PROVE  NoFault'
    OBVIOUS
  <2>1. CASE client_parser
    <3>1. ~Fault
      BY <2>1, ExchangeParser
    <3>2. QED
      BY <2>1, <3>1 DEF client_parser, Top, ReadLine, Dispatch, CopyLine, CheckLine,
                        StoreCounts, ClearResp, ReleaseNotice, ResetLocals, NoFault
  <2>2. CASE ~client_parser
    <3>1. ppc' = ppc
      BY <2>2 DEF Next, Begin, TakeLock, CallerStep, Send, ZeroCounts, TakeNotice,
                  Timeout, CheckStatus, Exit, Unlock, Return, Probe, ProbeTimeout,
                  ProbeAgain, ProbeDelete, Answer, Emit, EmitUnsolicited, SetStation,
                  parser, vars
    <3>2. QED
      BY <3>1 DEF NoFault
  <2>3. QED
    BY <2>1, <2>2
<1>3. QED
  BY <1>1, <1>2, ExchangeAlways, PTL DEF Spec

\* While no timeout fires before the answer, a call leaves nothing behind: when
\* client->lock is free there is no notice and no half-collected response.
THEOREM NothingLeft == Spec => []CleanBetweenCalls
<1>1. ExchangeInv => CleanBetweenCalls
  BY SizeAssumption DEF ExchangeInv, Free, Fresh, Resting, Counted, CleanBetweenCalls
<1>2. QED
  BY <1>1, ExchangeAlways, PTL

-----------------------------------------------------------------------------
(* The refinement of ATChannel *)

\* What the refinement mapping shows of the outcome and the answer of a call.
ShownOutcome(t) == IF pc[t] = "done" THEN result[t] ELSE "none"
ShownAnswer(t)  == IF pc[t] = "done" THEN Readable(ro[t]) ELSE << >>

Shown(t) == <<Phase(t), dlg[t].answers, cmd[t], ShownOutcome(t), ShownAnswer(t)>>

\* Nothing the mapping shows of t depends on more than its own state.
LEMMA ShownFrame ==
  ASSUME NEW t \in Tasks, UNCHANGED Own(t)
  PROVE  UNCHANGED Shown(t)
BY DEF Own, Shown, Phase, ShownOutcome, ShownAnswer, Readable

\* A step that shows nothing of any caller is a stutter of the channel.
LEMMA ShowsNothing ==
  ASSUME TypeOK, TypeOK', UNCHANGED ncmd, \A t \in Tasks : UNCHANGED Shown(t)
  PROVE  UNCHANGED Channel!vars
<1>1. \A t \in Tasks : /\ Phase(t)' = Phase(t) /\ dlg'[t].answers = dlg[t].answers
                       /\ cmd'[t] = cmd[t]
                       /\ ShownOutcome(t)' = ShownOutcome(t)
                       /\ ShownAnswer(t)' = ShownAnswer(t)
  BY DEF Shown
<1>2. cmd' = cmd
  BY <1>1 DEF TypeOK
<1>3. QED
  BY <1>1, <1>2 DEF Channel!vars, ShownOutcome, ShownAnswer

\* The lines at_resp_get_line finds in a whole response are the whole answer.
LEMMA WholeIsReadable ==
  ASSUME TypeOK, NEW t \in Tasks, NEW a \in Seq(AnswerKind), Len(a) # 0, Whole(t, a)
  PROVE  Readable(ro[t]) = [i \in 1 .. Len(a) |-> [kind |-> a[i], cmd |-> cmd[t]]]
<1>1. /\ Len(a) \in Nat /\ ro[t].gap = 0 /\ ro[t].line_counts = Len(a)
      /\ ro[t].lines \in Seq(Line) /\ Len(ro[t].lines) = Len(a)
  BY DEF Whole, Collected, Lines, TypeOK, RespObject
<1>2. Readable(ro[t]) = SubSeq(ro[t].lines, 1, Len(a))
  BY <1>1 DEF Readable
<1>3. \A i \in 1 .. Len(a) : ro[t].lines[i] = [kind |-> a[i], cmd |-> cmd[t]]
  <2> SUFFICES ASSUME NEW i \in 1 .. Len(a)
               PROVE  ro[t].lines[i] = [kind |-> a[i], cmd |-> cmd[t]]
    OBVIOUS
  <2>1. i \in 1 .. Len(a) - 0 /\ 0 + i = i
    BY <1>1
  <2>2. QED
    BY <2>1 DEF Whole, Collected, Lines, AnswerLine
<1>4. SubSeq(ro[t].lines, 1, Len(a)) = [i \in 1 .. Len(a) |-> ro[t].lines[i]]
  BY <1>1
<1>5. QED
  BY <1>2, <1>3, <1>4

\* Begin shows as Ask.
LEMMA ChannelAsk ==
  ASSUME TypeOK, TypeOK', NEW t \in Tasks, NEW a \in Apis, NEW d \in Dialogs,
         Begin(t, a, d)
  PROVE  Channel!Ask(t, d)
<1>0. USE DEF Begin, Goto, client, parser, modem, misc
<1>1. ASSUME NEW u \in Tasks, u # t PROVE UNCHANGED Shown(u)
  BY <1>1, ShownFrame DEF Own, TypeOK
<1>2. /\ Phase(t) = "idle" /\ Phase(t)' = "asked" /\ dlg'[t] = d
      /\ cmd' = cmd /\ ncmd' = ncmd
      /\ UNCHANGED <<ShownOutcome(t), ShownAnswer(t)>>
  BY DEF Phase, ShownOutcome, ShownAnswer, TypeOK
<1>3. ASSUME NEW u \in Tasks
      PROVE  /\ Phase(u)' = IF u = t THEN "asked" ELSE Phase(u)
             /\ dlg'[u].answers = IF u = t THEN d.answers ELSE dlg[u].answers
             /\ ShownOutcome(u)' = ShownOutcome(u)
             /\ ShownAnswer(u)' = ShownAnswer(u)
  BY <1>1, <1>2 DEF Shown
<1>4. QED
  BY <1>2, <1>3 DEF Channel!Ask, ShownOutcome, ShownAnswer

\* Send shows as Send: only the holder of the lock has a command out.
LEMMA ChannelSend ==
  ASSUME TypeOK, TypeOK', RespUnderLock, NEW t \in Tasks, api[t] = "exec", Send(t)
  PROVE  Channel!Send(t)
<1>0. USE DEF Send, Transmit, Goto, client, parser
<1>1. ASSUME NEW u \in Tasks, u # t PROVE UNCHANGED Shown(u) /\ Phase(u) # "sent"
  <2>1. UNCHANGED Shown(u)
    BY <1>1, ShownFrame DEF Own, TypeOK
  <2>2. pc[u] \notin Locked /\ pc[u] \in CallerPC
    BY <1>1 DEF RespUnderLock, Locked, TypeOK
  <2>3. QED
    BY <2>1, <2>2 DEF Phase, Locked, CallerPC
<1>2. /\ Phase(t) = "asked" /\ Phase(t)' = "sent" /\ dlg' = dlg
      /\ ncmd' = ncmd + 1 /\ cmd' = [cmd EXCEPT ![t] = ncmd + 1]
      /\ UNCHANGED <<ShownOutcome(t), ShownAnswer(t)>>
  BY DEF Phase, ShownOutcome, ShownAnswer, TypeOK
<1>3. QED
  BY <1>1, <1>2 DEF Channel!Send, Shown, ShownOutcome, ShownAnswer

\* Unlock shows as Complete: the response holds an answer, whole.
LEMMA ChannelComplete ==
  ASSUME TypeOK, TypeOK', ExchangeInv, NEW t \in Tasks, api[t] = "exec", Unlock(t)
  PROVE  Channel!Complete(t)
<1>0. USE DEF Unlock, Goto, parser, modem, misc
<1>1. ASSUME NEW u \in Tasks, u # t PROVE UNCHANGED Shown(u)
  BY <1>1, ShownFrame DEF Own, TypeOK
<1>2. PICK a \in dlg[t].answers : Whole(t, a) /\ result[t] = Outcome(a)
  BY DEF ExchangeInv, Local
<1>3. a \in Seq(AnswerKind) /\ Len(a) # 0
  BY AnswersOf DEF ExchangeInv
<1>4. Readable(ro[t]) = [i \in 1 .. Len(a) |-> [kind |-> a[i], cmd |-> cmd[t]]]
  BY <1>2, <1>3, WholeIsReadable
<1>5. ShownAnswer(t)' = Readable(ro[t])
  BY DEF ShownAnswer, Readable, TypeOK
<1>6. ShownOutcome(t)' = IF a[Len(a)] = "ERROR" THEN "error" ELSE "ok"
  BY <1>2 DEF ShownOutcome, Outcome, TypeOK
<1>7. /\ Phase(t) = "sent" /\ Phase(t)' = "answered" /\ dlg' = dlg
      /\ ncmd' = ncmd /\ cmd' = cmd
  BY DEF Phase, TypeOK
<1>8. /\ [u \in Tasks |-> Phase(u)]'
           = [[u \in Tasks |-> Phase(u)] EXCEPT ![t] = "answered"]
      /\ [u \in Tasks |-> ShownAnswer(u)]'
           = [[u \in Tasks |-> ShownAnswer(u)] EXCEPT ![t] =
                [i \in 1 .. Len(a) |-> [kind |-> a[i], cmd |-> cmd[t]]]]
      /\ [u \in Tasks |-> ShownOutcome(u)]'
           = [[u \in Tasks |-> ShownOutcome(u)] EXCEPT ![t] =
                IF a[Len(a)] = "ERROR" THEN "error" ELSE "ok"]
  BY <1>1, <1>4, <1>5, <1>6, <1>7 DEF Shown
<1>9. QED
  BY <1>2, <1>7, <1>8 DEF Channel!Complete, ShownOutcome, ShownAnswer

\* Return shows as Forget.
LEMMA ChannelForget ==
  ASSUME TypeOK, TypeOK', NEW t \in Tasks, Return(t)
  PROVE  Channel!Forget(t)
<1>0. USE DEF Return, Goto, client, parser, modem, misc
<1>1. ASSUME NEW u \in Tasks, u # t PROVE UNCHANGED Shown(u)
  BY <1>1, ShownFrame DEF Own, TypeOK
<1>2. /\ Phase(t) = "answered" /\ Phase(t)' = "idle" /\ dlg' = dlg
      /\ cmd' = cmd /\ ncmd' = ncmd
      /\ ShownOutcome(t)' = "none" /\ ShownAnswer(t)' = << >>
  BY DEF Phase, ShownOutcome, ShownAnswer, TypeOK
<1>3. QED
  BY <1>1, <1>2 DEF Channel!Forget, Shown, ShownOutcome, ShownAnswer

\* Every other step of a caller, and every step of the parser and the modem, shows
\* nothing: what they change of a response is seen when its call has returned.
LEMMA ChannelStutter ==
  ASSUME TypeOK, TypeOK', RespUnderLock, \A t \in Tasks : api[t] = "exec", [Next]_vars,
         ~\E t \in Tasks, a \in Apis, d \in Dialogs : Begin(t, a, d),
         ~\E t \in Tasks : Send(t) \/ Unlock(t) \/ Return(t), ExchangeInv, LifeInv
  PROVE  UNCHANGED Channel!vars
<1>0. USE DEF Goto, client, callers, parser, modem, misc
<1>1. ASSUME NEW t \in Tasks, TakeLock(t) \/ CallerStep(t)
      PROVE  UNCHANGED Channel!vars
  <2>1. \/ TakeLock(t) \/ ZeroCounts(t) \/ TakeNotice(t) \/ CheckStatus(t) \/ Exit(t)
    <3>1. pc[t] \notin {"wprobe", "wwait", "wcheck", "wdelete"}
      BY DEF LifeInv, LifeOf
    <3>2. QED
      BY <1>1, <3>1, NoTimeoutAssumption
         DEF CallerStep, Probe, ProbeTimeout, ProbeAgain, ProbeDelete, Timeout
  <2>2. ASSUME NEW u \in Tasks, u # t PROVE UNCHANGED Own(u)
    BY <2>1, <2>2 DEF TakeLock, ZeroCounts, TakeNotice, CheckStatus, Exit, Own, TypeOK
  <2>3. ncmd' = ncmd /\ cmd' = cmd /\ dlg' = dlg
    BY <2>1 DEF TakeLock, ZeroCounts, TakeNotice, CheckStatus, Exit
  <2>4. Phase(t)' = Phase(t) /\ pc[t] # "done" /\ pc'[t] # "done"
    <3>1. CASE TakeLock(t)
      BY <3>1 DEF TakeLock, Phase, TypeOK
    <3>2. CASE ZeroCounts(t)
      BY <3>2 DEF ZeroCounts, Phase, TypeOK
    <3>3. CASE TakeNotice(t)
      BY <3>3 DEF TakeNotice, Phase, TypeOK
    <3>4. CASE CheckStatus(t)
      BY <3>4 DEF CheckStatus, Phase, TypeOK
    <3>5. CASE Exit(t)
      BY <3>5 DEF Exit, Phase, TypeOK
    <3>6. QED
      BY <2>1, <3>1, <3>2, <3>3, <3>4, <3>5
  <2>5. UNCHANGED Shown(t)
    BY <2>3, <2>4 DEF Shown, ShownOutcome, ShownAnswer
  <2>6. QED
    BY <2>2, <2>3, <2>5, ShownFrame, ShowsNothing
<1>2. CASE client_parser
  <2>1. UNCHANGED <<pc, dlg, cmd, result, ncmd>>
    BY <1>2 DEF client_parser, Top, ReadLine, Dispatch, CopyLine, CheckLine,
                StoreCounts, ClearResp, ReleaseNotice, ResetLocals, Fault
  <2>2. ASSUME NEW u \in Tasks, pc[u] = "done" PROVE ro'[u] = ro[u]
    <3>1. u # resp
      BY <2>2, NullAssumption DEF RespUnderLock, Locked
    <3>2. QED
      BY <1>2, <3>1 DEF client_parser, Top, ReadLine, Dispatch, CopyLine, CheckLine,
                  StoreCounts, ClearResp, ReleaseNotice, ResetLocals, Fault, TypeOK
  <2>3. ASSUME NEW u \in Tasks PROVE UNCHANGED Shown(u)
    BY <2>1, <2>2 DEF Shown, Phase, ShownOutcome, ShownAnswer, Readable
  <2>4. QED
    BY <2>1, <2>3, ShowsNothing
<1>3. CASE Answer \/ Emit \/ EmitUnsolicited \/ SetStation \/ UNCHANGED vars
  <2>1. UNCHANGED <<pc, api, dlg, cmd, result, ro, ncmd>>
    BY <1>3 DEF Answer, Emit, EmitUnsolicited, SetStation, vars
  <2>2. \A u \in Tasks : UNCHANGED Own(u)
    BY <2>1 DEF Own
  <2>3. QED
    BY <2>1, <2>2, ShownFrame, ShowsNothing
<1>4. QED
  BY <1>1, <1>2, <1>3 DEF Next

\* Under the assumptions above, threads that use at_obj_exec_cmd see ATChannel: each
\* call returns one of the modem's answers to its own command, all of its lines in
\* order and no other, with the result its last line says, and one command is out
\* at a time.
THEOREM ChannelImplemented ==
  ASSUME Apis \subseteq {"exec"}
  PROVE  Spec => ImplementsChannel
<1> DEFINE OnlyExec == \A t \in Tasks : api[t] = "exec"
           Inv == TypeOK /\ RespUnderLock /\ LifeInv /\ ExchangeInv
<1>1. Init => OnlyExec
  BY DEF Init
<1>2. TypeOK /\ OnlyExec /\ [Next]_vars => OnlyExec'
  <2> SUFFICES ASSUME TypeOK, OnlyExec, [Next]_vars PROVE OnlyExec'
    OBVIOUS
  <2>1. ASSUME NEW t \in Tasks, NEW a \in Apis, NEW d \in Dialogs, Begin(t, a, d)
        PROVE  OnlyExec'
    BY <2>1 DEF Begin, TypeOK
  <2>2. CASE ~\E t \in Tasks, a \in Apis, d \in Dialogs : Begin(t, a, d)
    <3>1. api' = api
      BY <2>2 DEF Next, TakeLock, CallerStep, Send, ZeroCounts, TakeNotice, Timeout,
                  CheckStatus, Exit, Unlock, Return, Probe, ProbeTimeout, ProbeAgain,
                  ProbeDelete, client_parser, Top, ReadLine, Dispatch, CopyLine,
                  CheckLine, StoreCounts, ClearResp, ReleaseNotice, ResetLocals, Fault,
                  Answer, Emit, EmitUnsolicited, SetStation, callers, vars
    <3>2. QED
      BY <3>1
  <2>3. QED
    BY <2>1, <2>2
<1>3. Init => Channel!Init
  BY DEF Init, Channel!Init, Phase
<1>4. Inv /\ TypeOK' /\ OnlyExec /\ [Next]_vars => [Channel!Next]_(Channel!vars)
  <2> SUFFICES ASSUME Inv, TypeOK', OnlyExec, [Next]_vars
               PROVE  [Channel!Next]_(Channel!vars)
    OBVIOUS
  <2>1. ASSUME NEW t \in Tasks, NEW a \in Apis, NEW d \in Dialogs, Begin(t, a, d)
        PROVE  Channel!Next
    BY <2>1, ChannelAsk DEF Channel!Next
  <2>2. ASSUME NEW t \in Tasks, Send(t) PROVE Channel!Next
    BY <2>2, ChannelSend DEF Channel!Next
  <2>3. ASSUME NEW t \in Tasks, Unlock(t) PROVE Channel!Next
    BY <2>3, ChannelComplete DEF Channel!Next
  <2>4. ASSUME NEW t \in Tasks, Return(t) PROVE Channel!Next
    BY <2>4, ChannelForget DEF Channel!Next
  <2>5. QED
    BY <2>1, <2>2, <2>3, <2>4, ChannelStutter
<1> HIDE DEF OnlyExec
<1>5. Spec => []TypeOK
  BY TypeCorrect
<1>6. Spec => []Inv
  BY ExchangeAlways
<1>7. QED
  BY <1>1, <1>2, <1>3, <1>4, <1>5, <1>6, PTL
     DEF Spec, ImplementsChannel, Channel!Spec
=============================================================================
