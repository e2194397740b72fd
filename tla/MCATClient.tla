----------------------------- MODULE MCATClient -----------------------------
(* Small instances of ATClient. *)
EXTENDS ATClient

\* A command answered by a result alone.
Bare == [line_num |-> 0, answers |-> {<<"OK">>, <<"ERROR">>}]

BareDialogs == {Bare}
=============================================================================
