----------------------------- MODULE ATChannel -----------------------------
(***************************************************************************)
(* What the AT client promises the threads that use it: commands go to the *)
(* modem one at a time, and each call returns exactly the modem's answer   *)
(* to its own command, with the result the answer's last line says.        *)
(***************************************************************************)
EXTENDS Integers, Sequences

CONSTANTS Tasks, Dialogs

VARIABLES phase,    \* where each thread's call is
          dialog,   \* the answers the modem may give to its command
          number,   \* the number of its command
          outcome,  \* what the call returned
          answer,   \* the lines it returned
          sent      \* how many commands have been sent

vars == <<phase, dialog, number, outcome, answer, sent>>

Init ==
  /\ phase = [t \in Tasks |-> "idle"]
  /\ dialog = [t \in Tasks |-> {}]
  /\ number = [t \in Tasks |-> 0]
  /\ outcome = [t \in Tasks |-> "none"]
  /\ answer = [t \in Tasks |-> << >>]
  /\ sent = 0

Ask(t, d) ==
  /\ phase[t] = "idle"
  /\ phase' = [phase EXCEPT ![t] = "asked"]
  /\ dialog' = [dialog EXCEPT ![t] = d.answers]
  /\ UNCHANGED <<number, outcome, answer, sent>>

\* A command is sent only when no other is out.
Send(t) ==
  /\ phase[t] = "asked"
  /\ \A u \in Tasks : phase[u] # "sent"
  /\ phase' = [phase EXCEPT ![t] = "sent"]
  /\ sent' = sent + 1
  /\ number' = [number EXCEPT ![t] = sent + 1]
  /\ UNCHANGED <<dialog, outcome, answer>>

\* The call returns one of the modem's answers to this command, whole.
Complete(t) ==
  /\ phase[t] = "sent"
  /\ phase' = [phase EXCEPT ![t] = "answered"]
  /\ \E a \in dialog[t] :
       /\ answer' = [answer EXCEPT ![t] =
                       [i \in 1 .. Len(a) |-> [kind |-> a[i], cmd |-> number[t]]]]
       /\ outcome' = [outcome EXCEPT ![t] =
                        IF a[Len(a)] = "ERROR" THEN "error" ELSE "ok"]
  /\ UNCHANGED <<dialog, number, sent>>

Forget(t) ==
  /\ phase[t] = "answered"
  /\ phase' = [phase EXCEPT ![t] = "idle"]
  /\ outcome' = [outcome EXCEPT ![t] = "none"]
  /\ answer' = [answer EXCEPT ![t] = << >>]
  /\ UNCHANGED <<dialog, number, sent>>

Next == \E t \in Tasks :
          Send(t) \/ Complete(t) \/ Forget(t) \/ \E d \in Dialogs : Ask(t, d)

Spec == Init /\ [][Next]_vars
=============================================================================
