---------------------------- MODULE MCATExchange ----------------------------
(* A small instance of ATExchange. *)
EXTENDS ATExchange

\* A command answered by data and a result, waited for up to the result.
ToResult == [line_num |-> 0, answers |-> {<<"data", "OK">>, <<"data", "ERROR">>}]
\* A command waited for by its number of lines, which is what the modem sends.
ToCount == [line_num |-> 2, answers |-> {<<"data", "data">>, <<"ERROR">>}]

MixedDialogs == {ToResult, ToCount}
=============================================================================
